---- MODULE Spec2Model ----
(***************************************************************************)
(* LanguageCoach backend: the Conversation aggregate and its lifecycle,    *)
(* the SendMessage orchestrator (synchronous and streaming turn), the      *)
(* lazily loaded ProviderRegistry, the feedback and summary use cases, the *)
(* parsers of the LLM replies, the vendor client adapters and the loaders  *)
(* of the entities.                                                        *)
(*                                                                         *)
(* Text is modelled as a sequence of characters over Chars, so that        *)
(* str.strip(), truthiness of a string and "".join() are computed and not  *)
(* assumed.  datetime.now(UTC) is the variable now, advanced by Tick.      *)
(* uuid4() is the counter nextId.                                          *)
(***************************************************************************)
EXTENDS Integers, Sequences, FiniteSets, TLC

VARIABLES
    now,        \* reading of the wall clock, datetime.now(UTC)
    nextId,     \* next value uuid4() hands out
    conv,       \* the Conversation aggregate under entity / lifecycle calls
    last,       \* record of the last call made on conv
    \* ---- SendMessage turn
    repo,       \* what the repository holds for the conversation id (or None)
    turn,       \* the in-memory aggregate of the running turn
    pc,         \* position of the running turn
    mode,       \* "none" | "sync" | "stream"
    msgs0,      \* persisted message list when the turn started
    saves,      \* number of repository.save calls in the turn
    partnerCalls,  \* number of partner calls in the turn
    history,    \* the messages argument of the last partner call
    produced,   \* fragments the vendor stream has handed over so far
    forwarded,  \* fragments yielded to the caller so far
    full_response, \* the local buffer of execute_stream
    raised,     \* exception raised by the partner in the turn
    surfaced,   \* exception that reached the caller
    savedAtCall,   \* save count at the moment the partner was called
    turns,      \* number of turns started
    coach0,     \* COACH messages the repository held before the first turn
    normalEnds, \* turns whose stream ended normally with non-empty content
    \* ---- ProviderRegistry
    providers,  \* registry._providers: provider id -> class
    loaded,     \* registry._loaded
    lock,       \* owner of registry._lock, or NoThread
    sysModules, \* provider modules present in sys.modules
    tpc,        \* position of each thread
    tpos,       \* index of the provider module a discovering thread is at
    loads,      \* number of executions of the discovery body
    discovered, \* provider ids registered by discovery
    attempted,  \* provider modules discovery called import_module for
    failed,     \* provider modules whose import raised
    seen,       \* what each thread read from the catalog
    \* ---- Message and Feedback entities
    message,    \* the Message under attach_feedback calls
    feedback,   \* the Feedback under rate calls
    flast,      \* record of the last call made on message or feedback
    \* ---- ProviderRegistry operations
    call,       \* record of the last register / create_client /
                \* get_available_models call and of its outcome
    \* ---- application use cases on a stored conversation
    stored,     \* the conversation the repository holds
    ucall,      \* record of the last use-case call and of its outcome
    saveCount,  \* number of repository.save calls so far
    okCount,    \* number of use-case calls that returned so far
    \* ---- LLM services
    payload,    \* the decoded JSON reply a parser is given
    parsed,     \* what the parser made of it
    \* ---- vendor client adapters
    vendorCall, \* the adapter, the operation and what the vendor will do
    delivery,   \* position of the call and what reached the caller
    \* ---- factories and loaders of the entities
    origin,     \* the entity under test and how it was obtained
    rebuilt     \* what reconstitute() returned for its fields

convVars == <<conv, last>>
turnVars == <<repo, turn, pc, mode, msgs0, saves, partnerCalls, history,
              produced,
              forwarded, full_response, raised, surfaced, savedAtCall, turns, coach0, normalEnds>>
fbVars == <<message, feedback, flast>>
ucVars == <<stored, ucall, saveCount, okCount>>
parseVars == <<payload, parsed>>
clientVars == <<vendorCall, delivery>>
roundVars == <<origin, rebuilt>>
appVars == <<ucVars, parseVars, clientVars, roundVars>>
regVars  == <<providers, loaded, lock, sysModules, tpc, tpos, loads,
              discovered, attempted, failed, seen>>
vars == <<now, nextId, convVars, turnVars, regVars, fbVars, call, appVars>>

----------------------------------------------------------------------------
(* Bounds of the model *)

MaxClock == 2
MaxMsgs == 2

----------------------------------------------------------------------------
(* Text *)

Chars == {"a", " "}

IsSpace(ch) == ch = " "

RECURSIVE LStrip(_)
LStrip(s) ==
    IF s = <<>> THEN <<>>
    ELSE IF IsSpace(Head(s)) THEN LStrip(Tail(s)) ELSE s

RECURSIVE RStrip(_)
RStrip(s) ==
    IF s = <<>> THEN <<>>
    ELSE IF IsSpace(s[Len(s)]) THEN RStrip(SubSeq(s, 1, Len(s) - 1)) ELSE s

\* str.strip()
Strip(s) == RStrip(LStrip(s))

\* truthiness of a str: non-empty
Truthy(s) == s # <<>>

\* `not content or not content.strip()`
IsBlank(s) == ~Truthy(s) \/ ~Truthy(Strip(s))

----------------------------------------------------------------------------
(* Value objects and exceptions *)

ACTIVE == "ACTIVE"
COMPLETED == "COMPLETED"
ARCHIVED == "ARCHIVED"
ConversationStatus == {ACTIVE, COMPLETED, ARCHIVED}

USER == "USER"
COACH == "COACH"
MessageRole == {USER, COACH}

FRIENDLY == "friendly"

NoError == "none"
InvalidContextError == "InvalidContextError"
InvalidMessageContentError == "InvalidMessageContentError"
InvalidConversationStateError == "InvalidConversationStateError"
ConversationNotFoundError == "ConversationNotFoundError"
MessageNotFoundError == "MessageNotFoundError"
FeedbackNotFoundError == "FeedbackNotFoundError"
FeedbackAnalysisError == "FeedbackAnalysisError"

\* Optional values: None is the empty sequence, Some(x) the one-element one
None == <<>>
Some(x) == <<x>>

----------------------------------------------------------------------------
(* Message entity *)

\* Message.create: result [err, msg]
MessageCreate(content, role, id, t) ==
    IF IsBlank(content)
    THEN [err |-> InvalidMessageContentError, msg |-> None]
    ELSE [err |-> NoError,
          msg |-> Some([id |-> id, content |-> content, role |-> role,
                        created_at |-> t, feedback |-> None])]

----------------------------------------------------------------------------
(* Feedback entity.  user_rating is None, Some(TRUE) or Some(FALSE);       *)
(* user_comment and the comment argument are None or Some(text).           *)

\* Feedback.create
FeedbackCreate(corrections, suggestions, id, t) ==
    [id |-> id, corrections |-> corrections, suggestions |-> suggestions,
     created_at |-> t, user_rating |-> None, user_comment |-> None]

\* truthiness of a `str | None`: neither None nor the empty string
TruthyOpt(comment) == comment # None /\ Truthy(comment[1])

\* rate that stores the comment whatever the rating
Rate_KeepComment(f, rating, comment) ==
    [f EXCEPT !.user_rating = Some(rating),
              !.user_comment = IF TruthyOpt(comment) THEN comment ELSE @]

\* Feedback.rate
Rate(f, rating, comment) ==
    [f EXCEPT !.user_rating = Some(rating),
              !.user_comment = IF ~rating /\ TruthyOpt(comment) THEN comment
                               ELSE IF rating THEN None
                               ELSE @]

\* Message.reconstitute: no validation
MessageReconstitute(id, content, role, created_at, fb) ==
    [id |-> id, content |-> content, role |-> role,
     created_at |-> created_at, feedback |-> fb]

\* attach_feedback without the check for an attached feedback
AttachFeedback_NoAttachedCheck(m, f) ==
    IF m.role # USER
    THEN [err |-> InvalidMessageContentError, msg |-> m]
    ELSE [err |-> NoError, msg |-> [m EXCEPT !.feedback = Some(f.id)]]

\* Message.attach_feedback: result [err, msg].  The message keeps a
\* reference to the Feedback object, modelled as the feedback's id.
AttachFeedback(m, f) ==
    IF m.role # USER
    THEN [err |-> InvalidMessageContentError, msg |-> m]
    ELSE IF m.feedback # None
    THEN [err |-> InvalidMessageContentError, msg |-> m]
    ELSE [err |-> NoError, msg |-> [m EXCEPT !.feedback = Some(f.id)]]

----------------------------------------------------------------------------
(* Conversation entity.  Every method is an operator from the aggregate    *)
(* (and the clock reading t) to [err, conv]: the exception raised, if any, *)
(* and the aggregate after the call.                                       *)

Ok(c) == [err |-> NoError, conv |-> c]
Raise(c, e) == [err |-> e, conv |-> c]

\* Conversation.create
ConversationCreate(topic, tone, id, t) ==
    IF IsBlank(topic)
    THEN [err |-> InvalidContextError, conv |-> None]
    ELSE [err |-> NoError,
          conv |-> Some([id |-> id, context_topic |-> Strip(topic),
                         messages |-> <<>>, created_at |-> t,
                         updated_at |-> t, status |-> ACTIVE, tone |-> tone,
                         summary |-> None])]

\* _touch that forgets to store the new timestamp
Touch_Stale(c, t) == c

\* Conversation._touch
Touch(c, t) == [c EXCEPT !.updated_at = t]

\* archive without the check for COMPLETED
Archive_NoCompletedCheck(c, t) ==
    IF c.status = ARCHIVED THEN Raise(c, InvalidConversationStateError)
    ELSE Ok(Touch([c EXCEPT !.status = ARCHIVED], t))

\* Conversation.archive
Archive(c, t) ==
    IF c.status = ARCHIVED THEN Raise(c, InvalidConversationStateError)
    ELSE IF c.status = COMPLETED THEN Raise(c, InvalidConversationStateError)
    ELSE Ok(Touch([c EXCEPT !.status = ARCHIVED], t))

\* restore that drops the summary of the conversation it reopens
Restore_DropSummary(c, t) ==
    IF c.status = ACTIVE THEN Raise(c, InvalidConversationStateError)
    ELSE Ok(Touch([c EXCEPT !.status = ACTIVE, !.summary = None], t))

\* Conversation.restore
Restore(c, t) ==
    IF c.status = ACTIVE THEN Raise(c, InvalidConversationStateError)
    ELSE Ok(Touch([c EXCEPT !.status = ACTIVE], t))

\* Conversation.end
End(c, t) ==
    IF c.status = COMPLETED THEN Raise(c, InvalidConversationStateError)
    ELSE IF c.status = ARCHIVED THEN Raise(c, InvalidConversationStateError)
    ELSE Ok(Touch([c EXCEPT !.status = COMPLETED], t))

\* add_message that refuses a conversation that is not ACTIVE
AddMessage_ActiveOnly(c, content, role, id, t) ==
    LET m == MessageCreate(content, role, id, t) IN
    IF c.status # ACTIVE THEN Raise(c, InvalidConversationStateError)
    ELSE IF m.err # NoError THEN Raise(c, m.err)
    ELSE Ok(Touch([c EXCEPT !.messages = Append(c.messages, m.msg[1])], t))

\* Conversation.add_message
AddMessage(c, content, role, id, t) ==
    LET m == MessageCreate(content, role, id, t) IN
    IF m.err # NoError THEN Raise(c, m.err)
    ELSE Ok(Touch([c EXCEPT !.messages = Append(c.messages, m.msg[1])], t))

\* attach_summary without the check for a summary already attached
AttachSummary_Replace(c, summary, t) ==
    IF c.status # COMPLETED THEN Raise(c, InvalidConversationStateError)
    ELSE Ok(Touch([c EXCEPT !.summary = Some(summary)], t))

\* Conversation.attach_summary
AttachSummary(c, summary, t) ==
    IF c.status # COMPLETED THEN Raise(c, InvalidConversationStateError)
    ELSE IF c.summary # None THEN Raise(c, InvalidConversationStateError)
    ELSE Ok(Touch([c EXCEPT !.summary = Some(summary)], t))

----------------------------------------------------------------------------
(* ConversationSummary entity *)

InvalidFeedbackError == "InvalidFeedbackError"

\* ConversationSummary.create: result [err, summary]
ConversationSummaryCreate(fluency_score, id, t) ==
    IF ~(0 <= fluency_score /\ fluency_score <= 100)
    THEN [err |-> InvalidFeedbackError, summary |-> None]
    ELSE [err |-> NoError,
          summary |-> Some([id |-> id, fluency_score |-> fluency_score,
                            created_at |-> t])]

----------------------------------------------------------------------------
(* ChangeConversationStatus use case: load, mutate, save.  The result adds *)
(* saved: whether repository.save was invoked.                             *)

\* save placed where it also runs after a rejected call
UseCaseResult_AlwaysSave(r) == [err |-> r.err, conv |-> r.conv, saved |-> TRUE]

\* conversation = get(id); conversation.<method>(); save(conversation)
UseCaseResult(r) == [err |-> r.err, conv |-> r.conv, saved |-> r.err = NoError]

\* ChangeConversationStatus.archive
ChangeStatusArchive(c, t) == UseCaseResult(Archive(c, t))

\* ChangeConversationStatus.restore
ChangeStatusRestore(c, t) == UseCaseResult(Restore(c, t))

\* ChangeConversationStatus.end
ChangeStatusEnd(c, t) == UseCaseResult(End(c, t))

----------------------------------------------------------------------------
(* Inputs *)

Topics == {<<" ", "a", " ">>}
Contents == {<<>>, <<" ">>, <<"a">>}
SummaryScores == {100}

----------------------------------------------------------------------------
(* Idle values of the parts a specification does not exercise *)

NoThread == 0
NumThreads == 3
Threads == 1..NumThreads

\* number of COACH messages of a message list
CoachCount(ms) == Cardinality({i \in 1..Len(ms) : ms[i].role = COACH})

NoTurn ==
    /\ turn = None
    /\ pc = "idle"
    /\ mode = "none"
    /\ msgs0 = <<>>
    /\ saves = 0
    /\ partnerCalls = 0
    /\ history = <<>>
    /\ produced = <<>>
    /\ forwarded = <<>>
    /\ full_response = <<>>
    /\ raised = NoError
    /\ surfaced = NoError
    /\ savedAtCall = 0
    /\ turns = 0
    /\ coach0 = IF repo = None THEN 0 ELSE CoachCount(repo[1].messages)
    /\ normalEnds = 0

TurnIdle ==
    /\ repo = None
    /\ NoTurn

\* settings without any credential
NoSettings ==
    [openai_api_key |-> <<>>, anthropic_api_key |-> <<>>, api_key |-> <<>>]

\* no registry operation has been called
NoCall ==
    [op |-> "none", err |-> NoError, cls |-> "", model_id |-> <<>>,
     settings |-> NoSettings, capability |-> None, before |-> <<>>,
     factory |-> None, result |-> <<>>]

CallIdle == call = NoCall

\* no use case has been called on the stored conversation: the repository
\* holds a conversation and the Feedback objects its messages refer to
NoUseCase ==
    [op |-> "none", message_id |-> 0, conversation_id |-> 0,
     rating |-> FALSE, comment |-> None, err |-> NoError, saves |-> 0,
     analysis |-> NoError, providerCalls |-> 0]

UseCaseIdle ==
    /\ stored = [conversation |-> ConversationCreate(<<"a">>, FRIENDLY, 1, 0).conv[1],
                 feedbacks |-> <<>>]
    /\ ucall = [call |-> NoUseCase, before |-> stored]
    /\ saveCount = 0
    /\ okCount = 0

\* no reply has been handed to a parser
NoPayload == [for |-> "none", data |-> <<>>]
NotParsed == [done |-> FALSE, err |-> NoError, result |-> None]

ParseIdle ==
    /\ payload = NoPayload
    /\ parsed = NotParsed

\* no vendor call has been made
NoVendorCall == [vendor |-> "none", op |-> "none", script |-> <<>>]
NoDelivery ==
    [pc |-> "idle", i |-> 1, yielded |-> <<>>, content |-> None,
     err |-> NoError]

ClientIdle ==
    /\ vendorCall = NoVendorCall
    /\ delivery = NoDelivery

\* no entity has been made or loaded
RoundIdle ==
    /\ origin = [kind |-> "none", how |-> "none", entity |-> <<>>]
    /\ rebuilt = [n |-> 0, err |-> NoError, entity |-> None]

AppIdle ==
    /\ UseCaseIdle
    /\ ParseIdle
    /\ ClientIdle
    /\ RoundIdle

\* a message and a feedback nobody calls
FeedbackIdle ==
    /\ message = MessageCreate(<<"a">>, USER, 1, 0).msg[1]
    /\ feedback = FeedbackCreate(<<>>, <<>>, 1, 0)
    /\ flast = [op |-> "none", err |-> NoError, msgBefore |-> message,
                fbBefore |-> feedback, rating |-> FALSE, comment |-> None]

RegistryIdle ==
    /\ providers = <<>>
    /\ loaded = FALSE
    /\ lock = NoThread
    /\ sysModules = {}
    /\ tpc = [t \in Threads |-> "idle"]
    /\ tpos = [t \in Threads |-> 0]
    /\ loads = 0
    /\ discovered = {}
    /\ attempted = {}
    /\ failed = {}
    /\ seen = [t \in Threads |-> {}]

----------------------------------------------------------------------------
(* Specification Spec: one Conversation built by create() and changed      *)
(* through its methods, directly or through ChangeConversationStatus.      *)
(* last records the call just made: its name, the exception it raised, the *)
(* aggregate before it, whether it was made on the entity or through the   *)
(* use case, whether repository.save was invoked, and its arguments.       *)

CalledWith(op, via, r, saved, arg) ==
    /\ conv' = r.conv
    /\ last' = [op |-> op, via |-> via, err |-> r.err, before |-> conv,
                saved |-> saved, arg |-> arg]

Called(op, via, r, saved) == CalledWith(op, via, r, saved, None)

Init ==
    /\ now = 0
    /\ nextId = 2
    /\ \E topic \in Topics :
          conv = ConversationCreate(topic, FRIENDLY, 1, 0).conv[1]
    /\ last = [op |-> "create", via |-> "entity", err |-> NoError,
               before |-> conv, saved |-> FALSE, arg |-> None]
    /\ TurnIdle
    /\ RegistryIdle
    /\ FeedbackIdle
    /\ CallIdle
    /\ AppIdle

\* time passes between two calls
Tick ==
    /\ now < MaxClock
    /\ now' = now + 1
    /\ UNCHANGED <<nextId, convVars, turnVars, regVars, fbVars, call, appVars>>

\* conversation.archive()
ConvArchive ==
    /\ Called("archive", "entity", Archive(conv, now), FALSE)
    /\ UNCHANGED <<now, nextId, turnVars, regVars, fbVars, call, appVars>>

\* conversation.restore()
ConvRestore ==
    /\ Called("restore", "entity", Restore(conv, now), FALSE)
    /\ UNCHANGED <<now, nextId, turnVars, regVars, fbVars, call, appVars>>

\* conversation.end()
ConvEnd ==
    /\ Called("end", "entity", End(conv, now), FALSE)
    /\ UNCHANGED <<now, nextId, turnVars, regVars, fbVars, call, appVars>>

\* conversation.add_message(content, role)
ConvAddMessage ==
    /\ Len(conv.messages) < MaxMsgs
    /\ \E content \in Contents, role \in MessageRole :
          LET r == AddMessage(conv, content, role, nextId, now) IN
          /\ CalledWith("add_message", "entity", r, FALSE,
                        Some([content |-> content, role |-> role]))
          /\ nextId' = IF r.err = NoError THEN nextId + 1 ELSE nextId
    /\ UNCHANGED <<now, turnVars, regVars, fbVars, call, appVars>>

\* conversation.attach_summary(ConversationSummary.create(score, ...))
ConvAttachSummary ==
    /\ \E score \in SummaryScores :
          LET s == ConversationSummaryCreate(score, nextId, now).summary[1]
              r == AttachSummary(conv, s, now)
          IN  /\ Called("attach_summary", "entity", r, FALSE)
              \* the id of a summary that was not attached is never seen again
              /\ nextId' = IF r.err = NoError THEN nextId + 1 ELSE nextId
    /\ UNCHANGED <<now, turnVars, regVars, fbVars, call, appVars>>

\* ChangeConversationStatus(repository).archive(id)
UCArchive ==
    /\ LET r == ChangeStatusArchive(conv, now) IN Called("archive", "use_case", r, r.saved)
    /\ UNCHANGED <<now, nextId, turnVars, regVars, fbVars, call, appVars>>

\* ChangeConversationStatus(repository).restore(id)
UCRestore ==
    /\ LET r == ChangeStatusRestore(conv, now) IN Called("restore", "use_case", r, r.saved)
    /\ UNCHANGED <<now, nextId, turnVars, regVars, fbVars, call, appVars>>

\* ChangeConversationStatus(repository).end(id)
UCEnd ==
    /\ LET r == ChangeStatusEnd(conv, now) IN Called("end", "use_case", r, r.saved)
    /\ UNCHANGED <<now, nextId, turnVars, regVars, fbVars, call, appVars>>

Next ==
    \/ Tick
    \/ ConvArchive
    \/ ConvRestore
    \/ ConvEnd
    \/ ConvAddMessage
    \/ ConvAttachSummary
    \/ UCArchive
    \/ UCRestore
    \/ UCEnd

Spec == Init /\ [][Next]_vars

----------------------------------------------------------------------------
(* Specification SpecFeedback: one Message, made by create() or loaded by  *)
(* reconstitute(), receives attach_feedback calls; Feedback objects made   *)
(* by create() receive rate calls.  flast records the call just made, its  *)
(* arguments and the message and feedback before it.                       *)

MaxFeedbacks == 2

Comments == {None, Some(<<>>), Some(<<"a">>), Some(<<" ", "a">>)}

\* the messages under test: a USER and a COACH message made by create(), and
\* a COACH message loaded with a feedback reference
StoredMessages ==
    {MessageCreate(<<"a">>, USER, 1, 0).msg[1],
     MessageCreate(<<"a">>, COACH, 1, 0).msg[1],
     MessageReconstitute(1, <<"a">>, COACH, 0, Some(9))}

FbCalled(op, m, f, err, rating, comment) ==
    /\ message' = m
    /\ feedback' = f
    /\ flast' = [op |-> op, err |-> err, msgBefore |-> message,
                 fbBefore |-> feedback, rating |-> rating,
                 comment |-> comment]

InitFeedback ==
    /\ now = 0
    /\ nextId = 3
    /\ conv = ConversationCreate(<<"a">>, FRIENDLY, 1, 0).conv[1]
    /\ last = [op |-> "create", via |-> "entity", err |-> NoError,
               before |-> conv, saved |-> FALSE, arg |-> None]
    /\ TurnIdle
    /\ RegistryIdle
    /\ message \in StoredMessages
    /\ feedback = FeedbackCreate(<<>>, <<>>, 2, 0)
    /\ flast = [op |-> "create", err |-> NoError, msgBefore |-> message,
                fbBefore |-> feedback, rating |-> FALSE, comment |-> None]
    /\ CallIdle
    /\ AppIdle

\* Feedback.create(corrections, suggestions): a new Feedback object
FbCreate ==
    /\ nextId < 3 + MaxFeedbacks
    /\ FbCalled("create", message, FeedbackCreate(<<>>, <<>>, nextId, now),
                NoError, FALSE, None)
    /\ nextId' = nextId + 1
    /\ UNCHANGED <<now, convVars, turnVars, regVars, call, appVars>>

\* feedback.rate(rating, comment)
FbRate ==
    /\ \E rating \in BOOLEAN, comment \in Comments :
          FbCalled("rate", message, Rate(feedback, rating, comment), NoError,
                   rating, comment)
    /\ UNCHANGED <<now, nextId, convVars, turnVars, regVars, call, appVars>>

\* message.attach_feedback(feedback)
MsgAttachFeedback ==
    /\ LET r == AttachFeedback(message, feedback) IN
          FbCalled("attach_feedback", r.msg, feedback, r.err, FALSE, None)
    /\ UNCHANGED <<now, nextId, convVars, turnVars, regVars, call, appVars>>

NextFeedback ==
    \/ Tick
    \/ FbCreate
    \/ FbRate
    \/ MsgAttachFeedback

SpecFeedback == InitFeedback /\ [][NextFeedback]_vars

----------------------------------------------------------------------------
(* ConversationRepository port, as its contract describes it *)

\* ConversationRepository.get_active: result [err, conv]
GetActive(r) ==
    IF r = None THEN [err |-> ConversationNotFoundError, conv |-> None]
    ELSE IF r[1].status # ACTIVE
    THEN [err |-> InvalidConversationStateError, conv |-> None]
    ELSE [err |-> NoError, conv |-> r]

\* ConversationRepository.save: what the repository holds afterwards
Save(c) == Some(c)

----------------------------------------------------------------------------
(* ConversationPartner port *)

PartnerConnectionError == "PartnerConnectionError"
PartnerResponseError == "PartnerResponseError"
PartnerErrors == {PartnerConnectionError, PartnerResponseError}

MaxFrags == 3
MaxTurns == 2

Fragments == {<<>>, <<" ">>, <<"a">>}

\* A vendor stream hands over at most MaxFrags fragments, one per request,
\* and then ends normally or raises; it may end or raise at any request.

\* "".join(full_response)
RECURSIVE Join(_)
Join(fs) == IF fs = <<>> THEN <<>> ELSE Head(fs) \o Join(Tail(fs))

----------------------------------------------------------------------------
(* SendMessage use case.  pc is the position of the turn:                  *)
(*   idle                                                                  *)
(*   stream_save, stream_open, stream_await, stream_yielded, stream_save2  *)
(*   sync_call, sync_wait, sync_save                                       *)
(*   done             the turn returned normally                           *)
(*   rejected         get_active or the user add_message raised            *)
(*   partner_failed   the partner (call or stream) raised                  *)
(*   coach_rejected   add_message of the coach content raised              *)
(*   abandoned        the caller closed the stream it was consuming        *)

Settled == {"idle", "done", "rejected", "partner_failed", "coach_rejected",
            "abandoned"}

\* a new request: nothing of the previous turn is kept but the repository
BeginTurn(m) ==
    /\ pc \in Settled
    /\ turns < MaxTurns
    /\ turns' = turns + 1
    /\ mode' = m
    /\ msgs0' = IF repo = None THEN <<>> ELSE repo[1].messages
    /\ saves' = 0
    /\ partnerCalls' = 0
    /\ history' = <<>>
    /\ savedAtCall' = 0
    /\ produced' = <<>>
    /\ forwarded' = <<>>
    /\ full_response' = <<>>
    /\ raised' = NoError

\* a fetch that reports every repository failure as a state error
FetchAndAddUser_OneError(content, next) ==
    LET g == GetActive(repo) IN
    IF g.err # NoError
    THEN /\ pc' = "rejected"
         /\ surfaced' = InvalidConversationStateError
         /\ turn' = None
         /\ UNCHANGED nextId
    ELSE LET r == AddMessage(g.conv[1], content, USER, nextId, now) IN
         /\ turn' = Some(r.conv)
         /\ surfaced' = r.err
         /\ pc' = IF r.err # NoError THEN "rejected" ELSE next
         /\ nextId' = IF r.err # NoError THEN nextId ELSE nextId + 1

\* get_active, then add_message(content, USER): the first two statements of
\* execute and of execute_stream; next is the position after them
FetchAndAddUser(content, next) ==
    LET g == GetActive(repo) IN
    IF g.err # NoError
    THEN /\ pc' = "rejected"
         /\ surfaced' = g.err
         /\ turn' = None
         /\ UNCHANGED nextId
    ELSE LET r == AddMessage(g.conv[1], content, USER, nextId, now) IN
         /\ turn' = Some(r.conv)
         /\ surfaced' = r.err
         /\ pc' = IF r.err # NoError THEN "rejected" ELSE next
         /\ nextId' = IF r.err # NoError THEN nextId ELSE nextId + 1

\* execute_stream that opens the stream without persisting the user message
StreamStart_NoSave(content) ==
    /\ BeginTurn("stream")
    /\ FetchAndAddUser(content, "stream_open")
    /\ UNCHANGED <<now, repo, convVars, regVars, fbVars, call, appVars,
                   coach0, normalEnds>>

\* execute_stream, lines 86-89
StreamStart(content) ==
    /\ BeginTurn("stream")
    /\ FetchAndAddUser(content, "stream_save")
    /\ UNCHANGED <<now, repo, convVars, regVars, fbVars, call, appVars,
                   coach0, normalEnds>>

\* execute_stream, line 90: await self._repository.save(conversation)
StreamSaveUser ==
    /\ pc = "stream_save"
    /\ repo' = Save(turn[1])
    /\ saves' = saves + 1
    /\ pc' = "stream_open"
    /\ UNCHANGED <<now, nextId, turn, mode, msgs0, partnerCalls, history, produced, forwarded, full_response, raised, surfaced,
                   savedAtCall, turns, convVars, regVars, fbVars, call, appVars,
                   coach0, normalEnds>>

\* execute_stream, lines 95-99: the partner's stream is opened
StreamOpen ==
    /\ pc = "stream_open"
    /\ partnerCalls' = partnerCalls + 1
    /\ history' = turn[1].messages
    /\ savedAtCall' = saves
    /\ pc' = "stream_await"
    /\ UNCHANGED <<now, nextId, repo, turn, mode, msgs0, saves, produced,
                   forwarded, full_response, raised, surfaced, turns,
                   convVars, regVars, fbVars, call, appVars,
                   coach0, normalEnds>>

\* a loop body that does not forward an empty token
StreamFragment_SkipEmpty(token) ==
    /\ pc = "stream_await"
    /\ Len(produced) < MaxFrags
    /\ produced' = Append(produced, token)
    /\ /\ full_response' = Append(full_response, token)
       /\ forwarded' = IF Truthy(token) THEN Append(forwarded, token)
                       ELSE forwarded
    /\ pc' = "stream_yielded"
    /\ UNCHANGED <<now, nextId, repo, turn, mode, msgs0, saves, partnerCalls, history,
                   raised, surfaced, savedAtCall, turns, convVars,
                   regVars, fbVars, call, appVars,
                   coach0, normalEnds>>

\* execute_stream, lines 95-101: the stream hands over its next token, which
\* is appended to full_response and yielded to the caller
StreamFragment(token) ==
    /\ pc = "stream_await"
    /\ Len(produced) < MaxFrags
    /\ produced' = Append(produced, token)
    /\ /\ full_response' = Append(full_response, token)
       /\ forwarded' = Append(forwarded, token)
    /\ pc' = "stream_yielded"
    /\ UNCHANGED <<now, nextId, repo, turn, mode, msgs0, saves, partnerCalls, history,
                   raised, surfaced, savedAtCall, turns, convVars,
                   regVars, fbVars, call, appVars,
                   coach0, normalEnds>>

\* the caller asks for the next token: the generator resumes after yield
CallerResume ==
    /\ pc = "stream_yielded"
    /\ pc' = "stream_await"
    /\ UNCHANGED <<now, nextId, repo, turn, mode, msgs0, saves, partnerCalls, history,
                   produced, forwarded, full_response, raised,
                   surfaced, savedAtCall, turns, convVars, regVars, fbVars, call, appVars,
                   coach0, normalEnds>>

\* a generator that persists what it has received when it is closed
CallerAbandon_Flush ==
    /\ pc = "stream_yielded"
    /\ pc' = "abandoned"
    /\ LET r == AddMessage(turn[1], Join(full_response), COACH, nextId, now) IN
       /\ turn' = Some(r.conv)
       /\ repo' = IF r.err = NoError THEN Save(r.conv) ELSE repo
       /\ saves' = IF r.err = NoError THEN saves + 1 ELSE saves
       /\ nextId' = IF r.err = NoError THEN nextId + 1 ELSE nextId
    /\ UNCHANGED <<now, mode, msgs0, partnerCalls, history,
                   produced, forwarded, full_response, raised,
                   surfaced, savedAtCall, turns, convVars, regVars, fbVars, call, appVars,
                   coach0, normalEnds>>

\* the caller stops consuming: the generator is closed at its yield
CallerAbandon ==
    /\ pc = "stream_yielded"
    /\ pc' = "abandoned"
    /\ UNCHANGED <<now, nextId, repo, turn, mode, msgs0, saves, partnerCalls, history,
                   produced, forwarded, full_response, raised,
                   surfaced, savedAtCall, turns, convVars, regVars, fbVars, call, appVars,
                   coach0, normalEnds>>

\* a handler that persists what was received when the stream raises
StreamRaise_SavePartial(e) ==
    /\ pc = "stream_await"
    /\ raised' = e
    /\ surfaced' = e
    /\ pc' = "partner_failed"
    /\ LET r == AddMessage(turn[1], Join(full_response), COACH, nextId, now) IN
       /\ turn' = Some(r.conv)
       /\ repo' = IF r.err = NoError THEN Save(r.conv) ELSE repo
       /\ saves' = IF r.err = NoError THEN saves + 1 ELSE saves
       /\ nextId' = IF r.err = NoError THEN nextId + 1 ELSE nextId
    /\ UNCHANGED <<now, mode, msgs0, partnerCalls, history, produced,
                   forwarded, full_response, savedAtCall, turns, convVars,
                   regVars, fbVars, call, appVars,
                   coach0, normalEnds>>

\* execute_stream, lines 95-99: the stream raises; nothing catches it
StreamRaise(e) ==
    /\ pc = "stream_await"
    /\ raised' = e
    /\ surfaced' = e
    /\ pc' = "partner_failed"
    /\ UNCHANGED <<now, nextId, repo, turn, mode, msgs0, saves, partnerCalls, history,
                   produced, forwarded, full_response, savedAtCall,
                   turns, convVars, regVars, fbVars, call, appVars,
                   coach0, normalEnds>>

\* the end of execute_stream with the save outside the `if coach_content`
StreamEnd_SaveAlways ==
    /\ pc = "stream_await"
    /\ LET coach_content == Join(full_response) IN
       IF Truthy(coach_content)
       THEN LET r == AddMessage(turn[1], coach_content, COACH, nextId, now) IN
            /\ turn' = Some(r.conv)
            /\ surfaced' = r.err
            /\ pc' = IF r.err # NoError THEN "coach_rejected" ELSE "stream_save2"
            /\ nextId' = IF r.err # NoError THEN nextId ELSE nextId + 1
            /\ normalEnds' = normalEnds + 1
       ELSE /\ pc' = "stream_save2"
            /\ UNCHANGED <<turn, surfaced, nextId, normalEnds>>
    /\ UNCHANGED <<now, repo, mode, msgs0, saves, partnerCalls, history, produced, forwarded, full_response, raised, savedAtCall,
                   turns, convVars, regVars, fbVars, call, appVars,
                   coach0>>

\* execute_stream, lines 95 and 103-106: the stream is exhausted; a truthy
\* "".join(full_response) is added as the coach message
StreamEnd ==
    /\ pc = "stream_await"
    /\ LET coach_content == Join(full_response) IN
       IF Truthy(coach_content)
       THEN LET r == AddMessage(turn[1], coach_content, COACH, nextId, now) IN
            /\ turn' = Some(r.conv)
            /\ surfaced' = r.err
            /\ pc' = IF r.err # NoError THEN "coach_rejected" ELSE "stream_save2"
            /\ nextId' = IF r.err # NoError THEN nextId ELSE nextId + 1
            /\ normalEnds' = normalEnds + 1
       ELSE /\ pc' = "done"
            /\ UNCHANGED <<turn, surfaced, nextId, normalEnds>>
    /\ UNCHANGED <<now, repo, mode, msgs0, saves, partnerCalls, history, produced, forwarded, full_response, raised, savedAtCall,
                   turns, convVars, regVars, fbVars, call, appVars,
                   coach0>>

\* execute_stream, line 107: await self._repository.save(conversation)
StreamSaveCoach ==
    /\ pc = "stream_save2"
    /\ repo' = Save(turn[1])
    /\ saves' = saves + 1
    /\ pc' = "done"
    /\ UNCHANGED <<now, nextId, turn, mode, msgs0, partnerCalls, history, produced, forwarded, full_response, raised, surfaced,
                   savedAtCall, turns, convVars, regVars, fbVars, call, appVars,
                   coach0, normalEnds>>

\* execute, lines 48-51
SyncStart(content) ==
    /\ BeginTurn("sync")
    /\ FetchAndAddUser(content, "sync_call")
    /\ UNCHANGED <<now, repo, convVars, regVars, fbVars, call, appVars,
                   coach0, normalEnds>>

\* a partner call that is handed the history read before the user message
\* was added
SyncCall_StaleHistory ==
    /\ pc = "sync_call"
    /\ partnerCalls' = partnerCalls + 1
    /\ history' = msgs0
    /\ savedAtCall' = saves
    /\ pc' = "sync_wait"
    /\ UNCHANGED <<now, nextId, repo, turn, mode, msgs0, saves, produced, forwarded, full_response, raised, surfaced,
                   turns, convVars, regVars, fbVars, call, appVars,
                   coach0, normalEnds>>

\* execute, lines 54-58: await self._partner.generate_response(...)
SyncCall ==
    /\ pc = "sync_call"
    /\ partnerCalls' = partnerCalls + 1
    /\ history' = turn[1].messages
    /\ savedAtCall' = saves
    /\ pc' = "sync_wait"
    /\ UNCHANGED <<now, nextId, repo, turn, mode, msgs0, saves, produced, forwarded, full_response, raised, surfaced,
                   turns, convVars, regVars, fbVars, call, appVars,
                   coach0, normalEnds>>

\* a turn that persists the user message when the coach content is refused
SyncResponse_SaveUser(response_content) ==
    /\ pc = "sync_wait"
    /\ LET r == AddMessage(turn[1], response_content, COACH, nextId, now) IN
       /\ turn' = Some(r.conv)
       /\ surfaced' = r.err
       /\ pc' = IF r.err # NoError THEN "coach_rejected" ELSE "sync_save"
       /\ nextId' = IF r.err # NoError THEN nextId ELSE nextId + 1
       /\ repo' = IF r.err # NoError THEN Save(r.conv) ELSE repo
       /\ saves' = IF r.err # NoError THEN saves + 1 ELSE saves
    /\ UNCHANGED <<now, mode, msgs0, partnerCalls, history, produced, forwarded, full_response, raised, savedAtCall,
                   turns, convVars, regVars, fbVars, call, appVars,
                   coach0, normalEnds>>

\* execute, lines 54-61: the partner returns response_content, which is added
\* as the coach message
SyncResponse(response_content) ==
    /\ pc = "sync_wait"
    /\ LET r == AddMessage(turn[1], response_content, COACH, nextId, now) IN
       /\ turn' = Some(r.conv)
       /\ surfaced' = r.err
       /\ pc' = IF r.err # NoError THEN "coach_rejected" ELSE "sync_save"
       /\ nextId' = IF r.err # NoError THEN nextId ELSE nextId + 1
    /\ UNCHANGED <<now, repo, mode, msgs0, saves, partnerCalls, history, produced, forwarded, full_response, raised, savedAtCall,
                   turns, convVars, regVars, fbVars, call, appVars,
                   coach0, normalEnds>>

\* a turn that calls the partner a second time when the first call raises
SyncRaise_Retry(e) ==
    /\ pc = "sync_wait"
    /\ raised' = e
    /\ surfaced' = IF partnerCalls < 2 THEN surfaced ELSE e
    /\ pc' = IF partnerCalls < 2 THEN "sync_call" ELSE "partner_failed"
    /\ UNCHANGED <<now, nextId, repo, turn, mode, msgs0, saves, partnerCalls, history,
                   produced, forwarded, full_response, savedAtCall,
                   turns, convVars, regVars, fbVars, call, appVars,
                   coach0, normalEnds>>

\* execute, lines 54-58: the partner raises; nothing catches it
SyncRaise(e) ==
    /\ pc = "sync_wait"
    /\ raised' = e
    /\ surfaced' = e
    /\ pc' = "partner_failed"
    /\ UNCHANGED <<now, nextId, repo, turn, mode, msgs0, saves, partnerCalls, history,
                   produced, forwarded, full_response, savedAtCall,
                   turns, convVars, regVars, fbVars, call, appVars,
                   coach0, normalEnds>>

\* execute, line 64: await self._repository.save(conversation)
SyncSave ==
    /\ pc = "sync_save"
    /\ repo' = Save(turn[1])
    /\ saves' = saves + 1
    /\ pc' = "done"
    /\ UNCHANGED <<now, nextId, turn, mode, msgs0, partnerCalls, history, produced, forwarded, full_response, raised, surfaced,
                   savedAtCall, turns, convVars, regVars, fbVars, call, appVars,
                   coach0, normalEnds>>

\* the conversations a turn may find: none, or one made by create() and,
\* possibly, one earlier turn, archive or end
StoredConversations ==
    LET c0 == ConversationCreate(<<"a">>, FRIENDLY, 1, 0).conv[1]
        c1 == AddMessage(c0, <<"a">>, USER, 2, 0).conv
        c2 == AddMessage(c1, <<"a">>, COACH, 3, 0).conv
    IN  {None, Some(c0), Some(c2), Some(Archive(c2, 0).conv),
         Some(End(c2, 0).conv)}

InitTurn ==
    /\ now = 0
    /\ nextId = 4
    /\ conv = ConversationCreate(<<"a">>, FRIENDLY, 1, 0).conv[1]
    /\ last = [op |-> "create", via |-> "entity", err |-> NoError,
               before |-> conv, saved |-> FALSE, arg |-> None]
    /\ repo \in StoredConversations
    /\ NoTurn
    /\ RegistryIdle
    /\ FeedbackIdle
    /\ CallIdle
    /\ AppIdle

NextTurn ==
    \/ \E content \in Contents : StreamStart(content)
    \/ StreamSaveUser
    \/ StreamOpen
    \/ \E token \in Fragments : StreamFragment(token)
    \/ CallerResume
    \/ CallerAbandon
    \/ \E e \in PartnerErrors : StreamRaise(e)
    \/ StreamEnd
    \/ StreamSaveCoach
    \/ \E content \in Contents : SyncStart(content)
    \/ SyncCall
    \/ \E response_content \in Contents : SyncResponse(response_content)
    \/ \E e \in PartnerErrors : SyncRaise(e)
    \/ SyncSave

SpecTurn == InitTurn /\ [][NextTurn]_vars

\* Specification SpecStreamTurns: every request of the run is a streaming
\* one, each starting from what the repository holds
NextStreamTurns ==
    \/ \E content \in Contents : StreamStart(content)
    \/ StreamSaveUser
    \/ StreamOpen
    \/ \E token \in Fragments : StreamFragment(token)
    \/ CallerResume
    \/ CallerAbandon
    \/ \E e \in PartnerErrors : StreamRaise(e)
    \/ StreamEnd
    \/ StreamSaveCoach

SpecStreamTurns == InitTurn /\ [][NextStreamTurns]_vars

----------------------------------------------------------------------------
(* Properties of the conversation lifecycle, checked under Spec *)

LifecycleOps == {"archive", "restore", "end"}

AllowedStatusChanges ==
    {<<ACTIVE, ARCHIVED>>, <<ACTIVE, COMPLETED>>,
     <<ARCHIVED, ACTIVE>>, <<COMPLETED, ACTIVE>>}

Succeeded == last.err = NoError

RejectedCase ==
    \/ last.op = "archive" /\ last.before.status \in {ARCHIVED, COMPLETED}
    \/ last.op = "restore" /\ last.before.status = ACTIVE
    \/ last.op = "end" /\ last.before.status \in {COMPLETED, ARCHIVED}

\* C9: every rejected lifecycle call (archive on ARCHIVED or COMPLETED,
\* restore on ACTIVE, end on COMPLETED or ARCHIVED) raises
\* InvalidConversationStateError and leaves status and updated_at unchanged;
\* through ChangeConversationStatus, save is not invoked for it.
C9_RejectedCallsLeaveState ==
    RejectedCase =>
        /\ last.err = InvalidConversationStateError
        /\ conv.status = last.before.status
        /\ conv.updated_at = last.before.updated_at
        /\ ~last.saved

\* the use case was asked to end an ARCHIVED conversation, after time passed
C9_Witness ==
    /\ last.op = "end"
    /\ last.via = "use_case"
    /\ last.before.status = ARCHIVED
    /\ last.err = InvalidConversationStateError
    /\ now > conv.updated_at

TouchingOps == {"archive", "restore", "end", "add_message"}

\* C10 as stated: every successful archive, restore, end and add_message
\* leaves updated_at strictly greater than it was.
C10_StrictlyIncreases ==
    last.op \in TouchingOps /\ Succeeded =>
        conv.updated_at > last.before.updated_at

IsCallStep == last' # last

\* C10, amended: a successful restore (hence archive followed by restore)
\* leaves status ACTIVE; every successful archive, restore, end and
\* add_message sets updated_at to the clock reading at the call; with a clock
\* that does not run backwards updated_at never decreases, and it is
\* strictly greater than before exactly when the clock reading is greater
\* than the previous updated_at.
C10_TouchSetsClockReading ==
    [][/\ conv'.updated_at >= conv.updated_at
       /\ IsCallStep /\ last'.op \in TouchingOps /\ last'.err = NoError =>
             /\ conv'.updated_at = now
             /\ conv'.updated_at > conv.updated_at <=> now > conv.updated_at
             /\ last'.op = "restore" => conv'.status = ACTIVE]_vars

\* archive and then restore within one clock reading: status is ACTIVE again
\* and updated_at is what archive left
C10_Witness ==
    /\ last.op = "restore"
    /\ Succeeded
    /\ last.before.status = ARCHIVED
    /\ conv.status = ACTIVE
    /\ conv.updated_at = last.before.updated_at
    /\ conv.updated_at > conv.created_at

----------------------------------------------------------------------------
(* Properties of Message.attach_feedback and Feedback.rate, checked under  *)
(* SpecFeedback                                                            *)

\* C13: attach_feedback succeeds exactly when the message is a USER message
\* without feedback, and then the message refers to the given feedback; on
\* a COACH message (with or without feedback) and on a USER message that
\* has feedback it fails with InvalidMessageContentError and leaves the
\* message as it was; no other call changes the message, so a feedback
\* once attached is never replaced.
C13_AttachFeedbackOnce ==
    LET b == flast.msgBefore IN
    /\ flast.op = "attach_feedback" =>
          /\ (flast.err = NoError <=> b.role = USER /\ b.feedback = None)
          /\ (flast.err = NoError =>
                 message = [b EXCEPT !.feedback = Some(flast.fbBefore.id)])
          /\ (flast.err # NoError =>
                 /\ flast.err = InvalidMessageContentError
                 /\ message = b)
          /\ (b.feedback # None => message.feedback = b.feedback)
    /\ flast.op # "attach_feedback" => message = b

\* a second attach, of another Feedback, was rejected on a USER message
C13_Witness ==
    /\ flast.op = "attach_feedback"
    /\ flast.err = InvalidMessageContentError
    /\ message.role = USER
    /\ message.feedback = Some(2)
    /\ feedback.id = 3

\* C14: for a Feedback made by create(), after any sequence of rate calls a
\* rating of True goes with no comment; in particular the state right after
\* rate(True, comment=X) has user_comment None, whatever X and whatever
\* comment was stored before.
C14_HelpfulHasNoComment ==
    /\ feedback.user_rating = Some(TRUE) => feedback.user_comment = None
    /\ flast.op = "rate" /\ flast.rating => feedback.user_comment = None

\* rate(True, comment="a") on a feedback that held another comment
C14_Witness ==
    /\ flast.op = "rate"
    /\ flast.rating
    /\ flast.comment = Some(<<"a">>)
    /\ flast.fbBefore.user_comment = Some(<<" ", "a">>)
    /\ feedback.user_comment = None

\* C15: re-rating is last-write-wins: after rate(rating, comment) the pair
\* (user_rating, user_comment) is determined by the arguments alone:
\* user_rating is rating, user_comment is None after rate(True, ...) and is
\* the comment X after rate(False, comment=X), an absent or empty X leaving
\* no comment even when one was stored before; repeating the call changes
\* nothing.
C15_LastWriteWins ==
    flast.op = "rate" =>
        /\ feedback.user_rating = Some(flast.rating)
        /\ (flast.rating => feedback.user_comment = None)
        /\ (~flast.rating =>
               \/ feedback.user_comment = flast.comment
               \/ ~TruthyOpt(flast.comment) /\ ~TruthyOpt(feedback.user_comment))
        /\ Rate(feedback, flast.rating, flast.comment) = feedback

----------------------------------------------------------------------------
(* Properties of the streaming turn, checked under SpecTurn *)

\* ms is the turn's starting message list plus exactly one USER message
OnlyUserAdded(ms) ==
    /\ Len(ms) = Len(msgs0) + 1
    /\ SubSeq(ms, 1, Len(msgs0)) = msgs0
    /\ ms[Len(ms)].role = USER

\* ms is the starting list, one USER message and one COACH message of the
\* given content
UserAndCoachAdded(ms, content) ==
    /\ Len(ms) = Len(msgs0) + 2
    /\ SubSeq(ms, 1, Len(msgs0)) = msgs0
    /\ ms[Len(ms) - 1].role = USER
    /\ ms[Len(ms)].role = COACH
    /\ ms[Len(ms)].content = content

\* C1: when the provider stream raises after any number of fragments, the
\* same exception reaches the caller, no COACH message is appended and save
\* has been invoked exactly once: the conversation, in memory and as
\* persisted, holds the messages it had plus the one USER message.
C1_StreamFailureKeepsOnlyUser ==
    mode = "stream" /\ pc = "partner_failed" =>
        /\ raised \in PartnerErrors
        /\ surfaced = raised
        /\ saves = 1
        /\ OnlyUserAdded(turn[1].messages)
        /\ repo = turn

\* the stream raised PartnerConnectionError after two fragments with text
C1_Witness ==
    /\ mode = "stream"
    /\ pc = "partner_failed"
    /\ surfaced = PartnerConnectionError
    /\ produced = << <<"a">>, <<" ">> >>
    /\ Len(msgs0) = 2

\* C2: in a streaming turn the USER message is appended and its save has
\* completed before the partner's streaming call is opened and before any
\* fragment is forwarded: no partner call and no forwarded fragment while
\* the save count is zero.
C2_UserSavedBeforeStreaming ==
    mode = "stream"
    /\ (partnerCalls > 0 \/ forwarded # <<>>
        \/ pc \in {"stream_await", "stream_yielded"}) =>
        /\ saves >= 1
        /\ savedAtCall = 1
        /\ repo # None
        /\ Len(repo[1].messages) > Len(msgs0)
        /\ OnlyUserAdded(SubSeq(repo[1].messages, 1, Len(msgs0) + 1))

\* the stream has just been opened: one save done, nothing forwarded yet
C2_Witness ==
    /\ mode = "stream"
    /\ pc = "stream_await"
    /\ partnerCalls = 1
    /\ produced = <<>>
    /\ saves = 1
    /\ repo = turn

StreamEndedNormally ==
    mode = "stream" /\ pc \in {"done", "coach_rejected"}

\* C3: whenever the provider stream ends normally and the concatenation of
\* the received fragments is non-empty, exactly one COACH message with that
\* content is appended directly after the user message and save is invoked
\* a second time, so exactly twice in the turn.
C3_NonEmptyBufferPersisted ==
    StreamEndedNormally /\ Truthy(Join(full_response)) =>
        /\ saves = 2
        /\ UserAndCoachAdded(turn[1].messages, Join(full_response))
        /\ repo = turn

\* C4: when the provider stream ends normally with an empty accumulated
\* buffer, no COACH message is appended and no second save occurs: the
\* conversation gains exactly the USER message and save is invoked once.
C4_EmptyBufferSkipsCoach ==
    mode = "stream"
    /\ pc \in {"done", "coach_rejected", "stream_save2"}
    /\ ~Truthy(Join(full_response)) =>
        /\ pc = "done"
        /\ saves = 1
        /\ OnlyUserAdded(turn[1].messages)
        /\ repo = turn

\* the stream ended normally without a single fragment
C4_Witness ==
    /\ mode = "stream"
    /\ pc = "done"
    /\ partnerCalls = 1
    /\ produced = <<>>
    /\ saves = 1

\* C5: at every point of a streaming turn the fragments forwarded to the
\* caller are the fragments the vendor stream has produced, in the same
\* order, none dropped, duplicated, merged or reordered, and they are the
\* fragments accumulated in the local buffer; a next fragment is requested
\* only when every earlier one has been forwarded.
C5_ForwardedInOrder ==
    mode = "stream" =>
        /\ forwarded = produced
        /\ full_response = forwarded

\* three different fragments, the empty one among them, were forwarded
C5_Witness ==
    /\ mode = "stream"
    /\ pc = "stream_yielded"
    /\ forwarded = << <<"a">>, <<>>, <<" ">> >>

----------------------------------------------------------------------------
(* Properties of the synchronous turn and of a failed fetch, checked under *)
(* SpecTurn                                                                *)

\* C11: in a synchronous turn on an ACTIVE conversation the USER message is
\* appended first, the partner is called once with a history that is the
\* starting messages plus that USER message and before any save, the COACH
\* message is appended after the USER message, and save is invoked exactly
\* once, when both messages are in the conversation: a save count above
\* zero occurs only in the finished turn, whose persisted conversation has
\* both messages.
C11_SyncTurnOrder ==
    mode = "sync" =>
        /\ saves <= 1
        /\ partnerCalls <= 1
        /\ (partnerCalls = 1 =>
                /\ OnlyUserAdded(history)
                /\ savedAtCall = 0)
        /\ (pc = "sync_save" =>
                /\ saves = 0
                /\ UserAndCoachAdded(turn[1].messages,
                                     turn[1].messages[Len(msgs0) + 2].content))
        /\ (saves = 1 => pc = "done")
        /\ (pc = "done" =>
                /\ saves = 1
                /\ partnerCalls = 1
                /\ SubSeq(turn[1].messages, 1, Len(msgs0) + 1) = history
                /\ UserAndCoachAdded(turn[1].messages,
                                     turn[1].messages[Len(msgs0) + 2].content)
                /\ repo = turn)

\* a synchronous turn on a conversation with two earlier messages finished
C11_Witness ==
    /\ mode = "sync"
    /\ pc = "done"
    /\ Len(msgs0) = 2
    /\ Len(repo[1].messages) = 4
    /\ saves = 1

\* C12: when get_active fails (no conversation stored, or the stored one is
\* ARCHIVED or COMPLETED), the synchronous and the streaming turn both end
\* with the repository's own error, no message is appended, save is never
\* invoked and the partner is never called.
C12_FetchFailureStopsTurn ==
    mode \in {"sync", "stream"} /\ GetActive(repo).err # NoError =>
        /\ pc = "rejected"
        /\ surfaced = GetActive(repo).err
        /\ turn = None
        /\ saves = 0
        /\ partnerCalls = 0
        /\ (repo # None => repo[1].messages = msgs0)

\* the second turn of the run, a synchronous one, found no conversation
\* stored
C12_Witness ==
    /\ mode = "sync"
    /\ turns = 2
    /\ pc = "rejected"
    /\ repo = None
    /\ surfaced = ConversationNotFoundError

----------------------------------------------------------------------------
(* ProviderRegistry.  providers is the dict _providers, kept as the         *)
(* sequence of its (provider_id, class) entries in insertion order.        *)

\* the modules pkgutil.iter_modules finds in providers/, in its order
ProviderModules == <<"anthropic", "ollama", "openai">>

\* the class a provider module defines under @register_provider
ProviderClass(module) == [name |-> module, provider_id |-> module]

\* list(self._providers.keys())
ProviderIds(ps) == [i \in 1..Len(ps) |-> ps[i].id]

IdSet(ps) == {ps[i].id : i \in 1..Len(ps)}

\* an assignment that adds an entry even when the key is present
DictSet_AlwaysAppend(ps, id, cls) == Append(ps, [id |-> id, cls |-> cls])

\* self._providers[provider_id] = provider_class
DictSet(ps, id, cls) ==
    IF id \in IdSet(ps)
    THEN [i \in 1..Len(ps) |->
             IF ps[i].id = id THEN [id |-> id, cls |-> cls] ELSE ps[i]]
    ELSE Append(ps, [id |-> id, cls |-> cls])

\* getattr(provider_class, "provider_id", None) of a class without the
\* attribute, or with an empty one: `not provider_id` holds
NoProviderId == ""

\* ProviderRegistry.register: result [err, providers]
Register(ps, cls) ==
    IF cls.provider_id = NoProviderId
    THEN [err |-> "ValueError", providers |-> ps]
    ELSE [err |-> NoError,
          providers |-> DictSet(ps, cls.provider_id, cls.name)]

\* what importing a provider module can do: run the module (its decorator
\* registers the class), or raise ImportError or another Exception before
\* the class is defined
ImportOutcomes == {"ok", "ImportError", "Exception"}

\* a read operation (get_available_models, create_client,
\* is_provider_registered, get_registered_providers) is called: it starts
\* with self._ensure_loaded()
CallRead(t) ==
    /\ tpc[t] = "idle"
    /\ tpc' = [tpc EXCEPT ![t] = "check1"]
    /\ UNCHANGED <<providers, loaded, lock, sysModules, tpos, loads,
                   discovered, attempted, failed, seen>>
    /\ UNCHANGED <<now, nextId, convVars, turnVars, fbVars, call, appVars>>

\* _ensure_loaded, lines 64-65: the check without the lock
EnsureLoadedUnlocked(t) ==
    /\ tpc[t] = "check1"
    /\ tpc' = [tpc EXCEPT ![t] = IF loaded THEN "read" ELSE "lock"]
    /\ UNCHANGED <<providers, loaded, lock, sysModules, tpos, loads,
                   discovered, attempted, failed, seen>>
    /\ UNCHANGED <<now, nextId, convVars, turnVars, fbVars, call, appVars>>

\* _ensure_loaded, line 67: with self._lock (blocks while the lock is held)
AcquireLock(t) ==
    /\ tpc[t] = "lock"
    /\ lock = NoThread
    /\ lock' = t
    /\ tpc' = [tpc EXCEPT ![t] = "check2"]
    /\ UNCHANGED <<providers, loaded, sysModules, tpos, loads, discovered, attempted, failed,
                   seen>>
    /\ UNCHANGED <<now, nextId, convVars, turnVars, fbVars, call, appVars>>

\* the locked section without the second check of _loaded
EnsureLoadedLocked_NoSecondCheck(t) ==
    /\ tpc[t] = "check2"
    /\ loads' = loads + 1
    /\ tpc' = [tpc EXCEPT ![t] = "package"]
    /\ UNCHANGED <<lock, providers, loaded, sysModules, tpos, discovered, attempted, failed,
                   seen>>
    /\ UNCHANGED <<now, nextId, convVars, turnVars, fbVars, call, appVars>>

\* the locked section setting _loaded before discovery instead of after it
EnsureLoadedLocked_FlagFirst(t) ==
    /\ tpc[t] = "check2"
    /\ IF loaded
       THEN /\ lock' = NoThread
            /\ tpc' = [tpc EXCEPT ![t] = "read"]
            /\ UNCHANGED <<loads, loaded>>
       ELSE /\ loads' = loads + 1
            /\ loaded' = TRUE
            /\ tpc' = [tpc EXCEPT ![t] = "package"]
            /\ UNCHANGED lock
    /\ UNCHANGED <<providers, sysModules, tpos, discovered, attempted, failed, seen>>
    /\ UNCHANGED <<now, nextId, convVars, turnVars, fbVars, call, appVars>>

\* the locked section returning early without releasing the lock
EnsureLoadedLocked_KeepLock(t) ==
    /\ tpc[t] = "check2"
    /\ IF loaded
       THEN /\ tpc' = [tpc EXCEPT ![t] = "read"]
            /\ UNCHANGED <<loads, lock>>
       ELSE /\ loads' = loads + 1
            /\ tpc' = [tpc EXCEPT ![t] = "package"]
            /\ UNCHANGED lock
    /\ UNCHANGED <<providers, loaded, sysModules, tpos, discovered, attempted, failed, seen>>
    /\ UNCHANGED <<now, nextId, convVars, turnVars, fbVars, call, appVars>>

\* _ensure_loaded, lines 68-73: the second check, under the lock; returning
\* leaves the with block and releases the lock
EnsureLoadedLocked(t) ==
    /\ tpc[t] = "check2"
    /\ IF loaded
       THEN /\ lock' = NoThread
            /\ tpc' = [tpc EXCEPT ![t] = "read"]
            /\ UNCHANGED loads
       ELSE /\ loads' = loads + 1
            /\ tpc' = [tpc EXCEPT ![t] = "package"]
            /\ UNCHANGED lock
    /\ UNCHANGED <<providers, loaded, sysModules, tpos, discovered, attempted, failed, seen>>
    /\ UNCHANGED <<now, nextId, convVars, turnVars, fbVars, call, appVars>>

\* _ensure_loaded, lines 76-80 and 102-103: import of the providers package;
\* an ImportError is logged and ends discovery
ImportPackage(t, outcome) ==
    /\ tpc[t] = "package"
    /\ outcome \in {"ok", "ImportError"}
    /\ IF outcome = "ok"
       THEN /\ tpos' = [tpos EXCEPT ![t] = 1]
            /\ tpc' = [tpc EXCEPT ![t] = "discover"]
       ELSE /\ tpc' = [tpc EXCEPT ![t] = "mark"]
            /\ UNCHANGED tpos
    /\ UNCHANGED <<providers, loaded, lock, sysModules, loads, discovered, attempted, failed,
                   seen>>
    /\ UNCHANGED <<now, nextId, convVars, turnVars, fbVars, call, appVars>>

\* a loop without the two except clauses: the exception of a provider module
\* leaves _ensure_loaded (the with block releases the lock) and reaches the
\* caller
ImportModule_NoExcept(t, outcome) ==
    /\ tpc[t] = "discover"
    /\ tpos[t] <= Len(ProviderModules)
    /\ LET module == ProviderModules[tpos[t]] IN
       /\ attempted' = attempted \cup {module}
       /\ IF module \in sysModules
          THEN /\ tpos' = [tpos EXCEPT ![t] = tpos[t] + 1]
               /\ UNCHANGED <<providers, sysModules, discovered, failed, lock,
                              tpc>>
          ELSE IF outcome = "ok"
          THEN /\ providers' = Register(providers, ProviderClass(module)).providers
               /\ sysModules' = sysModules \cup {module}
               /\ discovered' = discovered \cup {module}
               /\ tpos' = [tpos EXCEPT ![t] = tpos[t] + 1]
               /\ UNCHANGED <<failed, lock, tpc>>
          ELSE /\ failed' = failed \cup {module}
               /\ lock' = NoThread
               /\ tpc' = [tpc EXCEPT ![t] = "raised"]
               /\ tpos' = [tpos EXCEPT ![t] = 0]
               /\ UNCHANGED <<providers, sysModules, discovered>>
    /\ UNCHANGED <<loaded, loads, seen>>
    /\ UNCHANGED <<now, nextId, convVars, turnVars, fbVars, call, appVars>>

\* _ensure_loaded, lines 80-100: one round of the loop.  A module already in
\* sys.modules is not executed again; a module that raises is not kept in
\* sys.modules; both except clauses continue with the next module.
ImportModule(t, outcome) ==
    /\ tpc[t] = "discover"
    /\ tpos[t] <= Len(ProviderModules)
    /\ LET module == ProviderModules[tpos[t]] IN
       /\ attempted' = attempted \cup {module}
       /\ IF module \in sysModules
          THEN UNCHANGED <<providers, sysModules, discovered, failed>>
          ELSE IF outcome = "ok"
          THEN /\ providers' = Register(providers, ProviderClass(module)).providers
               /\ sysModules' = sysModules \cup {module}
               /\ discovered' = discovered \cup {module}
               /\ UNCHANGED failed
          ELSE /\ failed' = failed \cup {module}
               /\ UNCHANGED <<providers, sysModules, discovered>>
    /\ tpos' = [tpos EXCEPT ![t] = tpos[t] + 1]
    /\ UNCHANGED <<loaded, lock, tpc, loads, seen>>
    /\ UNCHANGED <<now, nextId, convVars, turnVars, fbVars, call, appVars>>

\* _ensure_loaded, lines 80 and 105-106: the loop is exhausted
EndDiscovery(t) ==
    /\ tpc[t] = "discover"
    /\ tpos[t] > Len(ProviderModules)
    /\ tpc' = [tpc EXCEPT ![t] = "mark"]
    /\ tpos' = [tpos EXCEPT ![t] = 0]
    /\ UNCHANGED <<providers, loaded, lock, sysModules, loads, discovered, attempted, failed,
                   seen>>
    /\ UNCHANGED <<now, nextId, convVars, turnVars, fbVars, call, appVars>>

\* _ensure_loaded, line 108: self._loaded = True
MarkLoaded(t) ==
    /\ tpc[t] = "mark"
    /\ loaded' = TRUE
    /\ tpc' = [tpc EXCEPT ![t] = "release"]
    /\ UNCHANGED <<providers, lock, sysModules, tpos, loads, discovered, attempted, failed,
                   seen>>
    /\ UNCHANGED <<now, nextId, convVars, turnVars, fbVars, call, appVars>>

\* _ensure_loaded, lines 109-113: the with block ends, the lock is released
ReleaseLock(t) ==
    /\ tpc[t] = "release"
    /\ lock' = NoThread
    /\ tpc' = [tpc EXCEPT ![t] = "read"]
    /\ UNCHANGED <<providers, loaded, sysModules, tpos, loads, discovered, attempted, failed,
                   seen>>
    /\ UNCHANGED <<now, nextId, convVars, turnVars, fbVars, call, appVars>>

\* get_registered_providers, line 254 (and the catalog reads of the other
\* read operations): the thread reads self._providers
ReadCatalog(t) ==
    /\ tpc[t] = "read"
    /\ seen' = [seen EXCEPT ![t] = IdSet(providers)]
    /\ tpc' = [tpc EXCEPT ![t] = "done"]
    /\ UNCHANGED <<providers, loaded, lock, sysModules, tpos, loads,
                   discovered, attempted, failed>>
    /\ UNCHANGED <<now, nextId, convVars, turnVars, fbVars, call, appVars>>

\* the read operation returns; the thread may call again
ReturnRead(t) ==
    /\ tpc[t] = "done"
    /\ seen' = [seen EXCEPT ![t] = {}]
    /\ tpc' = [tpc EXCEPT ![t] = "idle"]
    /\ UNCHANGED <<providers, loaded, lock, sysModules, tpos, loads,
                   discovered, attempted, failed>>
    /\ UNCHANGED <<now, nextId, convVars, turnVars, fbVars, call, appVars>>

InitRegistry ==
    /\ now = 0
    /\ nextId = 2
    /\ conv = ConversationCreate(<<"a">>, FRIENDLY, 1, 0).conv[1]
    /\ last = [op |-> "create", via |-> "entity", err |-> NoError,
               before |-> conv, saved |-> FALSE, arg |-> None]
    /\ TurnIdle
    /\ RegistryIdle
    /\ FeedbackIdle
    /\ CallIdle
    /\ AppIdle

\* threads calling read operations on the singleton, with no clear()
NextRegistry ==
    \E t \in Threads :
        \/ CallRead(t)
        \/ EnsureLoadedUnlocked(t)
        \/ AcquireLock(t)
        \/ EnsureLoadedLocked(t)
        \/ \E outcome \in {"ok", "ImportError"} : ImportPackage(t, outcome)
        \/ \E outcome \in ImportOutcomes : ImportModule(t, outcome)
        \/ EndDiscovery(t)
        \/ MarkLoaded(t)
        \/ ReleaseLock(t)
        \/ ReadCatalog(t)
        \/ ReturnRead(t)

SpecRegistry == InitRegistry /\ [][NextRegistry]_vars

\* the steps of thread t inside a read operation, from the call to the read
\* of the catalog: once called, the operation runs without waiting for
\* anything but the lock
ReadStep(t) ==
    \/ EnsureLoadedUnlocked(t)
    \/ AcquireLock(t)
    \/ EnsureLoadedLocked(t)
    \/ \E outcome \in {"ok", "ImportError"} : ImportPackage(t, outcome)
    \/ \E outcome \in ImportOutcomes : ImportModule(t, outcome)
    \/ EndDiscovery(t)
    \/ MarkLoaded(t)
    \/ ReleaseLock(t)
    \/ ReadCatalog(t)

\* Specification SpecRegistryFair: the threads of SpecRegistry under a
\* scheduler that lets every thread that can take a step take one
\* eventually; whether and when a thread calls again is left open
SpecRegistryFair ==
    /\ InitRegistry
    /\ [][NextRegistry]_vars
    /\ \A t \in Threads : WF_vars(ReadStep(t))

----------------------------------------------------------------------------
(* Provider classes.  A class is known to the catalog by its name; what    *)
(* its static methods do is looked up by that name.  A model id is a str,  *)
(* kept as the sequence of its pieces: the separator "/" and words that    *)
(* hold no "/".                                                            *)

CHAT == "CHAT"
FEEDBACK == "FEEDBACK"
SUMMARY == "SUMMARY"
JSON_MODE == "JSON_MODE"

\* the classes registered by hand: a provider with id "mock", a second class
\* declaring the same id, and a class without provider_id
MockProvider == [name |-> "MockProvider", provider_id |-> "mock"]
OtherMock == [name |-> "OtherMock", provider_id |-> "mock"]
NoId == [name |-> "NoId", provider_id |-> NoProviderId]
TestClasses == {MockProvider, OtherMock, NoId}

\* provider_class.is_available(settings)
IsAvailable(cls, settings) ==
    CASE cls = "openai" -> Truthy(settings.openai_api_key)
      [] cls = "anthropic" -> Truthy(settings.anthropic_api_key)
      [] cls = "ollama" -> TRUE
      [] OTHER -> Truthy(settings.api_key)

ModelInfo(id, provider, capabilities) ==
    [id |-> id, provider |-> provider, capabilities |-> capabilities]

\* provider_class.list_models()
ListModels(cls) ==
    LET all_capabilities == {CHAT, FEEDBACK, SUMMARY, JSON_MODE}
        chat_capabilities == {CHAT, FEEDBACK, SUMMARY}
    IN
    CASE cls = "openai" ->
           << ModelInfo("openai/gpt-4o", "openai", all_capabilities),
              ModelInfo("openai/gpt-4o-mini", "openai", all_capabilities),
              ModelInfo("openai/gpt-4-turbo", "openai", all_capabilities) >>
      [] cls = "anthropic" ->
           << ModelInfo("anthropic/claude-sonnet-4-20250514", "anthropic",
                        all_capabilities),
              ModelInfo("anthropic/claude-3-5-haiku-20241022", "anthropic",
                        all_capabilities) >>
      [] cls = "ollama" ->
           << ModelInfo("ollama/llama3.2", "ollama", chat_capabilities),
              ModelInfo("ollama/gemma2.5:7b", "ollama", chat_capabilities) >>
      [] OTHER ->
           << ModelInfo("mock/m1", "mock", chat_capabilities) >>

\* ModelInfo.supports
Supports(m, capability) == capability \in m.capabilities

ProviderKeyRequired == "ValueError: API key is required"

\* provider_class.create_client(model, settings): result [err, client]
ProviderCreateClient(cls, model, settings) ==
    IF \/ cls = "openai" /\ ~Truthy(settings.openai_api_key)
       \/ cls = "anthropic" /\ ~Truthy(settings.anthropic_api_key)
    THEN [err |-> ProviderKeyRequired, client |-> None]
    ELSE [err |-> NoError, client |-> Some([cls |-> cls, model |-> model])]

\* self._providers[provider_id], for a key that is present
DictGet(ps, id) == ps[CHOOSE i \in 1..Len(ps) : ps[i].id = id].cls

----------------------------------------------------------------------------
(* ProviderRegistry operations, called from one thread *)

SLASH == "/"

\* the str made of one word
Word(w) == <<w>>

\* index of the first "/" of s, or 0
RECURSIVE FindSlash(_, _)
FindSlash(s, i) ==
    IF i > Len(s) THEN 0
    ELSE IF s[i] = SLASH THEN i ELSE FindSlash(s, i + 1)

\* model_id.split("/", 1)
SplitFirst(s) ==
    LET i == FindSlash(s, 1) IN
    IF i = 0 THEN <<s>>
    ELSE <<SubSeq(s, 1, i - 1), SubSeq(s, i + 1, Len(s))>>

\* model_id.split("/"): every separator splits
RECURSIVE SplitAll(_)
SplitAll(s) ==
    LET i == FindSlash(s, 1) IN
    IF i = 0 THEN <<s>>
    ELSE <<SubSeq(s, 1, i - 1)>> \o SplitAll(SubSeq(s, i + 1, Len(s)))

\* str.startswith("/")
StartsWithSlash(s) == s # <<>> /\ s[1] = SLASH

InvalidModelIdFormat == "ValueError: Invalid model ID format"
UnknownProvider == "ValueError: Unknown provider"
ProviderNotConfigured == "ValueError: Provider is not configured"

Failure(e) == [err |-> e, factory |-> None, client |-> None]

\* the part of create_client after the format check
CreateClientFor(ps, provider_id, model_name, settings) ==
    IF ~(\E i \in 1..Len(ps) : Word(ps[i].id) = provider_id)
    THEN Failure(UnknownProvider)
    ELSE LET provider_class == DictGet(ps, provider_id[1]) IN
         IF ~IsAvailable(provider_class, settings)
         THEN Failure(ProviderNotConfigured)
         ELSE LET r == ProviderCreateClient(provider_class, model_name,
                                            settings)
              IN  [err |-> r.err,
                   factory |-> Some([cls |-> provider_class,
                                     model |-> model_name]),
                   client |-> r.client]

\* create_client that splits on every "/" and wants exactly two parts
CreateClient_SplitAll(ps, model_id, settings) ==
    LET parts == SplitAll(model_id) IN
    IF \/ Len(parts) # 2
       \/ ~Truthy(parts[1])
       \/ ~Truthy(parts[2])
    THEN Failure(InvalidModelIdFormat)
    ELSE CreateClientFor(ps, parts[1], parts[2], settings)

\* create_client that leaves the credential check to the provider's factory
CreateClient_FactoryChecks(ps, model_id, settings) ==
    LET parts == SplitFirst(model_id) IN
    IF \/ Len(parts) # 2
       \/ ~Truthy(parts[1])
       \/ ~Truthy(parts[2])
       \/ StartsWithSlash(parts[2])
    THEN Failure(InvalidModelIdFormat)
    ELSE IF ~(\E i \in 1..Len(ps) : Word(ps[i].id) = parts[1])
    THEN Failure(UnknownProvider)
    ELSE LET provider_class == DictGet(ps, parts[1][1])
             r == ProviderCreateClient(provider_class, parts[2], settings)
         IN  [err |-> IF r.err = NoError THEN NoError
                      ELSE ProviderNotConfigured,
              factory |-> Some([cls |-> provider_class, model |-> parts[2]]),
              client |-> r.client]

\* ProviderRegistry.create_client, lines 205-229, on the loaded catalog ps:
\* result [err, factory, client], factory being the call made to the
\* provider's create_client, if any
CreateClient(ps, model_id, settings) ==
    LET parts == SplitFirst(model_id) IN
    IF \/ Len(parts) # 2
       \/ ~Truthy(parts[1])
       \/ ~Truthy(parts[2])
       \/ StartsWithSlash(parts[2])
    THEN Failure(InvalidModelIdFormat)
    ELSE CreateClientFor(ps, parts[1], parts[2], settings)

\* [m for m in provider_models if m.supports(capability)]
RECURSIVE FilterModels(_, _)
FilterModels(ms, capability) ==
    IF ms = <<>> THEN <<>>
    ELSE IF Supports(Head(ms), capability)
    THEN <<Head(ms)>> \o FilterModels(Tail(ms), capability)
    ELSE FilterModels(Tail(ms), capability)

\* the models one provider adds to the list
ProviderModels(cls, capability) ==
    IF capability # None
    THEN FilterModels(ListModels(cls), capability[1])
    ELSE ListModels(cls)

\* get_available_models that does not ask is_available
RECURSIVE GetAvailableModels_NoAvailability(_, _, _)
GetAvailableModels_NoAvailability(ps, settings, capability) ==
    IF ps = <<>> THEN <<>>
    ELSE ProviderModels(Head(ps).cls, capability)
         \o GetAvailableModels_NoAvailability(Tail(ps), settings, capability)

\* ProviderRegistry.get_available_models, lines 164-185, on the loaded
\* catalog ps
RECURSIVE GetAvailableModels(_, _, _)
GetAvailableModels(ps, settings, capability) ==
    IF ps = <<>> THEN <<>>
    ELSE (IF IsAvailable(Head(ps).cls, settings)
          THEN ProviderModels(Head(ps).cls, capability)
          ELSE <<>>)
         \o GetAvailableModels(Tail(ps), settings, capability)

\* the registry's fields as one record
RegState ==
    [providers |-> providers, loaded |-> loaded, sysModules |-> sysModules,
     discovered |-> discovered, attempted |-> attempted, failed |-> failed,
     loads |-> loads]

\* the loop of _ensure_loaded from module i on; mods[i] is what importing
\* module i does
RECURSIVE DiscoverFrom(_, _, _)
DiscoverFrom(i, st, mods) ==
    IF i > Len(ProviderModules) THEN st
    ELSE LET module == ProviderModules[i]
             tried == [st EXCEPT !.attempted = @ \cup {module}]
             after ==
                 IF module \in st.sysModules THEN tried
                 ELSE IF mods[i] = "ok"
                 THEN [tried EXCEPT
                         !.providers = Register(@, ProviderClass(module)).providers,
                         !.sysModules = @ \cup {module},
                         !.discovered = @ \cup {module}]
                 ELSE [tried EXCEPT !.failed = @ \cup {module}]
         IN  DiscoverFrom(i + 1, after, mods)

\* _ensure_loaded run by the only thread: the lock is free and is released
\* on return
EnsureLoaded(st, pkg, mods) ==
    IF st.loaded THEN st
    ELSE LET d == IF pkg = "ok" THEN DiscoverFrom(1, st, mods) ELSE st
         IN  [d EXCEPT !.loaded = TRUE, !.loads = @ + 1]

SetRegState(st) ==
    /\ providers' = st.providers
    /\ loaded' = st.loaded
    /\ sysModules' = st.sysModules
    /\ discovered' = st.discovered
    /\ attempted' = st.attempted
    /\ failed' = st.failed
    /\ loads' = st.loads
    /\ UNCHANGED <<lock, tpc, tpos, seen>>

----------------------------------------------------------------------------
(* Specification SpecCatalog: one thread registers classes by hand and     *)
(* calls create_client and get_available_models on the singleton; the      *)
(* first read operation runs discovery.  The arguments the read           *)
(* operations are called with (model_id, settings, capability) are drawn   *)
(* when the run starts; call records them, the last operation, the         *)
(* catalog before it and its outcome.                                      *)

MaxIdLen == 5

\* the pieces model ids are made of
IdPieces == {SLASH, "mock"}

ModelIds == UNION {[1..n -> IdPieces] : n \in 0..MaxIdLen}

Keys == {<<>>, <<"a">>}

\* settings with the Anthropic credential present and the two others present
\* or absent
SettingsSet ==
    [openai_api_key : Keys, anthropic_api_key : {<<"a">>}, api_key : Keys]

Capabilities == {None, Some(JSON_MODE)}

\* what the imports of a discovery can do; nothing is imported when the
\* catalog is loaded
PackageOutcomes == IF loaded THEN {"ok"} ELSE {"ok", "ImportError"}

ModuleOutcomes ==
    IF loaded THEN {[i \in 1..Len(ProviderModules) |-> "ok"]}
    ELSE [1..Len(ProviderModules) -> ImportOutcomes]

InitCatalog ==
    /\ now = 0
    /\ nextId = 2
    /\ conv = ConversationCreate(<<"a">>, FRIENDLY, 1, 0).conv[1]
    /\ last = [op |-> "create", via |-> "entity", err |-> NoError,
               before |-> conv, saved |-> FALSE, arg |-> None]
    /\ TurnIdle
    /\ RegistryIdle
    /\ FeedbackIdle
    /\ AppIdle
    /\ \E model_id \in ModelIds, settings \in SettingsSet,
          capability \in Capabilities :
          call = [NoCall EXCEPT !.model_id = model_id,
                                !.settings = settings,
                                !.capability = capability]

\* registry.register(provider_class)
CatRegister ==
    /\ \E provider_class \in TestClasses :
          LET r == Register(providers, provider_class) IN
          /\ providers' = r.providers
          /\ call' = [call EXCEPT !.op = "register", !.err = r.err,
                                  !.cls = provider_class.name,
                                  !.before = providers,
                                  !.factory = None, !.result = <<>>]
    /\ UNCHANGED <<loaded, lock, sysModules, tpc, tpos, loads, discovered,
                   attempted, failed, seen>>
    /\ UNCHANGED <<now, nextId, convVars, turnVars, fbVars, appVars>>

\* registry.create_client(model_id, settings)
CatCreateClient ==
    /\ \E pkg \in PackageOutcomes, mods \in ModuleOutcomes :
          LET st == EnsureLoaded(RegState, pkg, mods)
              r == CreateClient(st.providers, call.model_id, call.settings)
          IN  /\ SetRegState(st)
              /\ call' = [call EXCEPT !.op = "create_client",
                                      !.err = r.err,
                                      !.cls = "",
                                      !.before = providers,
                                      !.factory = r.factory,
                                      !.result = r.client]
    /\ UNCHANGED <<now, nextId, convVars, turnVars, fbVars, appVars>>

\* registry.get_available_models(settings, capability)
CatGetAvailableModels ==
    /\ \E pkg \in PackageOutcomes, mods \in ModuleOutcomes :
          LET st == EnsureLoaded(RegState, pkg, mods) IN
          /\ SetRegState(st)
          /\ call' = [call EXCEPT
                        !.op = "get_available_models",
                        !.err = NoError,
                        !.cls = "",
                        !.before = providers,
                        !.factory = None,
                        !.result = GetAvailableModels(st.providers,
                                                      call.settings,
                                                      call.capability)]
    /\ UNCHANGED <<now, nextId, convVars, turnVars, fbVars, appVars>>

NextCatalog ==
    \/ CatRegister
    \/ CatCreateClient
    \/ CatGetAvailableModels

SpecCatalog == InitCatalog /\ [][NextCatalog]_vars

----------------------------------------------------------------------------
(* Specification SpecReset: one thread registers classes by hand, reads    *)
(* the catalog and resets the registry with clear().                       *)

MaxLoads == 2

\* clear that empties the catalog and keeps the loaded flag
CatClear_KeepLoaded ==
    /\ loads < MaxLoads
    /\ providers' = <<>>
    /\ call' = [NoCall EXCEPT !.op = "clear", !.before = providers]
    /\ UNCHANGED <<loaded, lock, sysModules, tpc, tpos, loads, discovered,
                   attempted, failed, seen>>
    /\ UNCHANGED <<now, nextId, convVars, turnVars, fbVars, appVars>>

\* registry.clear()
CatClear ==
    /\ loads < MaxLoads
    /\ providers' = <<>>
    /\ loaded' = FALSE
    /\ call' = [NoCall EXCEPT !.op = "clear", !.before = providers]
    /\ UNCHANGED <<lock, sysModules, tpc, tpos, loads, discovered, attempted,
                   failed, seen>>
    /\ UNCHANGED <<now, nextId, convVars, turnVars, fbVars, appVars>>

\* registry.get_registered_providers()
CatGetRegisteredProviders ==
    /\ \E pkg \in PackageOutcomes, mods \in ModuleOutcomes :
          LET st == EnsureLoaded(RegState, pkg, mods) IN
          /\ SetRegState(st)
          /\ call' = [NoCall EXCEPT !.op = "get_registered_providers",
                                    !.before = providers,
                                    !.result = ProviderIds(st.providers)]
    /\ UNCHANGED <<now, nextId, convVars, turnVars, fbVars, appVars>>

NextReset ==
    \/ CatRegister
    \/ CatGetRegisteredProviders
    \/ CatClear

SpecReset == InitRegistry /\ [][NextReset]_vars

----------------------------------------------------------------------------
(* Properties of lazy loading, checked under SpecRegistry *)

InsideDiscovery(t) == tpc[t] \in {"package", "discover", "mark"}

PastEnsureLoaded(t) == tpc[t] \in {"read", "done"}

\* C6: for threads that race on the first call of a read operation, with no
\* clear(), the discovery body of _ensure_loaded executes exactly once: never
\* a second time, and once by the time any thread is past _ensure_loaded.
C6_DiscoveryRunsOnce ==
    /\ loads <= 1
    /\ loaded => loads = 1
    /\ \A t \in Threads : PastEnsureLoaded(t) => loads = 1

\* a thread that passed the unlocked check before loading finished holds the
\* lock, finds the registry loaded and will not load again
C6_Witness ==
    \E t \in Threads :
        /\ tpc[t] = "check2"
        /\ lock = t
        /\ loaded
        /\ loads = 1

\* C7: no read operation reads the catalog while discovery is in progress:
\* a thread past _ensure_loaded, whether it ran discovery or waited on the
\* lock, finds _loaded true, no thread inside discovery and every provider
\* that discovery registered in the catalog it reads.
C7_ReadersSeeLoadedCatalog ==
    \A t \in Threads :
        /\ tpc[t] = "read" =>
              /\ loaded
              /\ \A u \in Threads : ~InsideDiscovery(u)
              /\ discovered \subseteq IdSet(providers)
        /\ tpc[t] = "done" => seen[t] = discovered

\* two threads have read the full catalog of three providers, discovered once
C7_Witness ==
    \E t, u \in Threads :
        /\ t # u
        /\ tpc[t] = "done"
        /\ tpc[u] = "done"
        /\ seen[t] = {"anthropic", "ollama", "openai"}
        /\ seen[u] = seen[t]
        /\ loads = 1

\* the modules of ProviderModules, as a set
AllProviderModules == {ProviderModules[i] : i \in 1..Len(ProviderModules)}

\* C19: a provider module whose import raises (ImportError or any other
\* Exception) does not stop discovery: no exception reaches a caller, and
\* once no thread is inside the discovery body import_module has been
\* called for every provider module, every module that did not raise is
\* registered, and the registry is marked loaded.
C19_ImportFailureIsContained ==
    /\ \A t \in Threads : tpc[t] # "raised"
    /\ (failed # {} /\ \A t \in Threads : ~InsideDiscovery(t)) =>
          /\ loaded
          /\ attempted = AllProviderModules
          /\ discovered = AllProviderModules \ failed
          /\ IdSet(providers) = discovered

\* the first module raised, the two after it were imported and registered,
\* and a caller has read the catalog
C19_Witness ==
    /\ loaded
    /\ failed = {"anthropic"}
    /\ discovered = {"ollama", "openai"}
    /\ \E t \in Threads : tpc[t] = "done" /\ seen[t] = discovered

----------------------------------------------------------------------------
(* Properties of the registry operations, checked under SpecCatalog *)

NoSlash(m) == \A k \in 1..Len(m) : m[k] # SLASH

\* position of the first "/" of a model id that has one
FirstSlash(m) ==
    CHOOSE k \in 1..Len(m) :
        m[k] = SLASH /\ \A j \in 1..(k - 1) : m[j] # SLASH

\* no "/", an empty provider segment, an empty remainder or a remainder that
\* begins with "/"
BadFormat(m) ==
    \/ NoSlash(m)
    \/ FirstSlash(m) = 1
    \/ FirstSlash(m) = Len(m)
    \/ m[FirstSlash(m) + 1] = SLASH

ProviderSegment(m) == SubSeq(m, 1, FirstSlash(m) - 1)

Remainder(m) == SubSeq(m, FirstSlash(m) + 1, Len(m))

\* the provider segment is the id of a catalog entry
IsRegistered(p) == \E i \in 1..Len(providers) : Word(providers[i].id) = p

\* the class the catalog holds for a registered provider segment
RegisteredClass(p) ==
    providers[CHOOSE i \in 1..Len(providers) : Word(providers[i].id) = p].cls

\* C16: create_client splits model_id on the first "/" only.  It fails,
\* without calling any factory, when model_id has no "/", when the provider
\* segment is empty, when the remainder is empty or when the remainder
\* begins with "/"; otherwise the format is accepted and, for a registered
\* and available provider, that provider's create_client is called with the
\* whole remainder as model name, further "/" included, and its client is
\* returned.
C16_SplitsOnFirstSlash ==
    call.op = "create_client" =>
        LET m == call.model_id IN
        /\ BadFormat(m) => call.err # NoError /\ call.factory = None
        /\ ~BadFormat(m) =>
              /\ call.err # InvalidModelIdFormat
              /\ IsRegistered(ProviderSegment(m))
                 /\ IsAvailable(RegisteredClass(ProviderSegment(m)),
                                call.settings) =>
                    LET made == [cls |-> RegisteredClass(ProviderSegment(m)),
                                 model |-> Remainder(m)]
                    IN  /\ call.err = NoError
                        /\ call.factory = Some(made)
                        /\ call.result = Some(made)

\* "mock/mock/mock" reached MockProvider's factory as model "mock/mock"
C16_Witness ==
    /\ call.op = "create_client"
    /\ call.model_id = <<"mock", SLASH, "mock", SLASH, "mock">>
    /\ call.err = NoError
    /\ call.factory = Some([cls |-> "MockProvider",
                            model |-> <<"mock", SLASH, "mock">>])

ListedEntries ==
    UNION {{<<i, j>> : j \in {k \in 1..Len(ListModels(providers[i].cls)) :
                                \/ call.capability = None
                                \/ call.capability[1] \in
                                     ListModels(providers[i].cls)[k].capabilities}}
           : i \in {n \in 1..Len(providers) :
                      IsAvailable(providers[n].cls, call.settings)}}

\* e comes before f or is f, in provider order and then in list order
EntryLeq(e, f) == e[1] < f[1] \/ (e[1] = f[1] /\ e[2] <= f[2])

\* C18: get_available_models returns exactly the models of the registered
\* providers that are available under the settings, restricted to those
\* that have the requested capability when one is given, each once, in the
\* catalog's provider order and, within a provider, in the order of its
\* list_models(); nothing of an unavailable provider is in the answer.
C18_ModelsOfAvailableProviders ==
    call.op = "get_available_models" =>
        /\ Len(call.result) = Cardinality(ListedEntries)
        /\ \A e \in ListedEntries :
              call.result[Cardinality({f \in ListedEntries : EntryLeq(f, e)})]
                 = ListModels(providers[e[1]].cls)[e[2]]
        /\ \A k \in 1..Len(call.result) :
              \E i \in 1..Len(providers) :
                 /\ providers[i].id = call.result[k].provider
                 /\ IsAvailable(providers[i].cls, call.settings)

\* four providers, the mock one registered first, OpenAI without credential:
\* the answer is the mock model and the Anthropic and Ollama models
C18_Witness ==
    /\ call.op = "get_available_models"
    /\ call.capability = None
    /\ ProviderIds(providers) = <<"mock", "anthropic", "ollama", "openai">>
    /\ call.settings.openai_api_key = <<>>
    /\ call.settings.api_key = <<"a">>
    /\ Len(call.result) = 5
    /\ call.result[1].id = "mock/m1"
    /\ call.result[5].id = "ollama/gemma2.5:7b"

\* the class of TestClasses with the given name
TestClass(name) == CHOOSE c \in TestClasses : c.name = name

\* C20: register is an upsert keyed by provider id.  The catalog never holds
\* two entries for one id.  A register of a class with a provider id
\* succeeds and leaves exactly one entry for that id, mapped to the class
\* just registered, every other entry and the order of the ids being as
\* before (a new id goes to the end); registering the same class again
\* changes nothing.  A register of a class without provider id fails and
\* leaves the catalog as it was.
C20_RegisterIsUpsert ==
    /\ \A i, j \in 1..Len(providers) :
          providers[i].id = providers[j].id => i = j
    /\ call.op = "register" =>
          LET b == call.before
              c == TestClass(call.cls)
              id == c.provider_id
          IN  IF id = NoProviderId
              THEN call.err = "ValueError" /\ providers = b
              ELSE /\ call.err = NoError
                   /\ Cardinality({i \in 1..Len(providers) :
                                     providers[i].id = id}) = 1
                   /\ DictGet(providers, id) = c.name
                   /\ \A i \in 1..Len(b) : providers[i].id = b[i].id
                   /\ \A i \in 1..Len(b) :
                         b[i].id # id => providers[i] = b[i]
                   /\ Len(providers) =
                         IF id \in IdSet(b) THEN Len(b) ELSE Len(b) + 1
                   /\ Register(providers, c).providers = providers

\* OtherMock was registered over MockProvider in a catalog of four providers
C20_Witness ==
    /\ call.op = "register"
    /\ call.cls = "OtherMock"
    /\ Len(call.before) = 4
    /\ DictGet(call.before, "mock") = "MockProvider"
    /\ DictGet(providers, "mock") = "OtherMock"
    /\ Len(providers) = 4

----------------------------------------------------------------------------
(* Properties of clear(), checked under SpecReset *)

\* C21: a clear() step leaves the catalog empty and the loaded flag false,
\* and the read operation that follows a clear() runs the discovery body
\* once more and leaves the loaded flag true.
C21_ClearResetsLoading ==
    [][/\ call'.op = "clear" => providers' = <<>> /\ ~loaded'
       /\ call.op = "clear" /\ call'.op = "get_registered_providers" =>
             loads' = loads + 1 /\ loaded']_vars

\* the catalog was read, cleared while it held providers, and read again:
\* discovery has run twice
C21_Witness ==
    /\ call.op = "get_registered_providers"
    /\ loaded
    /\ loads = 2
    /\ discovered # {}

----------------------------------------------------------------------------
(* Properties of Conversation.add_message, checked under Spec              *)

\* C30: add_message with non-blank content succeeds whatever the status of
\* the conversation is, the message list afterwards is the list before with
\* exactly one message appended at the end that carries the given content
\* and role, and the status is what it was.
C30_AddMessageAnyStatus ==
    last.op = "add_message" /\ ~IsBlank(last.arg[1].content) =>
        /\ last.err = NoError
        /\ Len(conv.messages) = Len(last.before.messages) + 1
        /\ SubSeq(conv.messages, 1, Len(last.before.messages))
              = last.before.messages
        /\ conv.messages[Len(conv.messages)].content = last.arg[1].content
        /\ conv.messages[Len(conv.messages)].role = last.arg[1].role
        /\ conv.status = last.before.status

\* a second message added to a COMPLETED conversation lands after the first
C30_Witness ==
    /\ last.op = "add_message"
    /\ last.err = NoError
    /\ last.before.status = COMPLETED
    /\ Len(last.before.messages) = 1
    /\ Len(conv.messages) = 2
    /\ conv.messages[1] = last.before.messages[1]

----------------------------------------------------------------------------
(* Decoded JSON, as json.loads hands it to the LLM services.  A value is   *)
(* [kind, v]: kind is the Python type of the value ("absent" stands for a  *)
(* key the object does not have) and v is always a sequence: the           *)
(* characters of a str, the elements of a list, <<n>> for an int, <<k>>    *)
(* for the float k/10, <<b>> for a bool, <<fields>> for a dict.            *)

Absent == [kind |-> "absent", v |-> <<>>]
Null == [kind |-> "null", v |-> <<>>]
NaN == [kind |-> "nan", v |-> <<>>]
Str(s) == [kind |-> "str", v |-> s]
Num(n) == [kind |-> "int", v |-> <<n>>]
Float(k) == [kind |-> "float", v |-> <<k>>]
Bool(b) == [kind |-> "bool", v |-> <<b>>]
List(xs) == [kind |-> "list", v |-> xs]
Obj(fields) == [kind |-> "dict", v |-> <<fields>>]

AttributeError == "AttributeError"
TypeError == "TypeError"
ValueError == "ValueError"

\* truthiness of dict.get(key): a missing key reads as None
PyTruthy(j) ==
    CASE j.kind \in {"absent", "null"} -> FALSE
      [] j.kind = "bool" -> j.v[1]
      [] j.kind \in {"int", "float"} -> j.v[1] # 0
      [] j.kind \in {"str", "list"} -> j.v # <<>>
      [] OTHER -> TRUE

UpperLetters ==
    <<"A", "B", "C", "D", "E", "F", "G", "H", "I", "J", "K", "L", "M",
      "N", "O", "P", "Q", "R", "S", "T", "U", "V", "W", "X", "Y", "Z">>
LowerLetters ==
    <<"a", "b", "c", "d", "e", "f", "g", "h", "i", "j", "k", "l", "m",
      "n", "o", "p", "q", "r", "s", "t", "u", "v", "w", "x", "y", "z">>

LowerChar(ch) ==
    IF \E i \in 1..Len(UpperLetters) : UpperLetters[i] = ch
    THEN LowerLetters[CHOOSE i \in 1..Len(UpperLetters) : UpperLetters[i] = ch]
    ELSE ch

\* str.lower()
Lower(s) == [i \in 1..Len(s) |-> LowerChar(s[i])]

Digits == <<"0", "1", "2", "3", "4", "5", "6", "7", "8", "9">>

RECURSIVE NatText(_)
NatText(n) ==
    IF n < 10 THEN <<Digits[n + 1]>>
    ELSE Append(NatText(n \div 10), Digits[(n % 10) + 1])

\* str() of None, of a bool, of an int and of a str
PyStr(j) ==
    CASE j.kind = "str" -> j.v
      [] j.kind = "int" ->
            IF j.v[1] < 0 THEN <<"-">> \o NatText(0 - j.v[1])
            ELSE NatText(j.v[1])
      [] j.kind = "bool" ->
            IF j.v[1] THEN <<"T", "r", "u", "e">>
            ELSE <<"F", "a", "l", "s", "e">>
      [] j.kind = "null" -> <<"N", "o", "n", "e">>

\* int() of an int, of a bool and of a float: truncation towards zero
PyInt(j) ==
    CASE j.kind = "int" -> j.v[1]
      [] j.kind = "bool" -> IF j.v[1] THEN 1 ELSE 0
      [] j.kind = "float" ->
            IF j.v[1] >= 0 THEN j.v[1] \div 10 ELSE 0 - ((0 - j.v[1]) \div 10)

Min(a, b) == IF a <= b THEN a ELSE b
Max(a, b) == IF a >= b THEN a ELSE b

----------------------------------------------------------------------------
(* LLMFeedbackAnalyzer._parse_feedback                                     *)

GRAMMAR == "grammar"
VOCABULARY == "vocabulary"
PHRASING == "phrasing"

GrammarKey == <<"g", "r", "a", "m", "m", "a", "r">>
VocabularyKey == <<"v", "o", "c", "a", "b", "u", "l", "a", "r", "y">>
PhrasingKey == <<"p", "h", "r", "a", "s", "i", "n", "g">>

\* _normalize_type: a CorrectionType or None
NormalizeType(correction_type) ==
    IF correction_type.kind # "str" THEN None
    ELSE LET type_lower == Strip(Lower(correction_type.v)) IN
         IF type_lower = GrammarKey THEN Some(GRAMMAR)
         ELSE IF type_lower = VocabularyKey THEN Some(VOCABULARY)
         ELSE IF type_lower = PhrasingKey THEN Some(PHRASING)
         ELSE None

\* Correction(original, corrected, explanation, correction_type)
Correction(original, corrected, explanation, correction_type) ==
    [original |-> original, corrected |-> corrected,
     explanation |-> explanation, correction_type |-> correction_type]

\* entry.get("explanation", "").strip(): result [err, text]
Explanation(entry) ==
    IF entry.explanation.kind = "absent" THEN [err |-> NoError, text |-> <<>>]
    ELSE IF entry.explanation.kind = "str"
    THEN [err |-> NoError, text |-> Strip(entry.explanation.v)]
    ELSE [err |-> AttributeError, text |-> <<>>]

\* the for loop of _parse_feedback over corrections_data: result
\* [err, corrections]
RECURSIVE ParseCorrections(_, _)
ParseCorrections(corrections_data, corrections) ==
    IF corrections_data = <<>>
    THEN [err |-> NoError, corrections |-> corrections]
    ELSE LET entry == Head(corrections_data) IN
         IF entry.kind # "dict"
         THEN [err |-> AttributeError, corrections |-> corrections]
         ELSE LET e == entry.v[1]
                  correction_type == NormalizeType(e.type)
                  x == Explanation(e)
              IN  IF \/ correction_type = None
                     \/ ~PyTruthy(e.original)
                     \/ ~PyTruthy(e.corrected)
                  THEN ParseCorrections(Tail(corrections_data), corrections)
                  ELSE IF x.err # NoError
                  THEN [err |-> x.err, corrections |-> corrections]
                  ELSE ParseCorrections(
                           Tail(corrections_data),
                           Append(corrections,
                                  Correction(e.original, e.corrected, x.text,
                                             correction_type[1])))

\* what `for entry in corrections_data` iterates over: result [err, entries]
CorrectionsData(data) ==
    LET c == data.corrections IN
    CASE c.kind = "absent" -> [err |-> NoError, entries |-> <<>>]
      [] c.kind = "list" -> [err |-> NoError, entries |-> c.v]
      [] c.kind = "str" ->
            [err |-> NoError, entries |-> [i \in 1..Len(c.v) |-> Str(<<c.v[i]>>)]]
      [] OTHER -> [err |-> TypeError, entries |-> <<>>]

\* list(data.get("suggestions", [])) if it is a list, else []
Suggestions(data) ==
    IF data.suggestions.kind = "list" THEN data.suggestions.v ELSE <<>>

\* _parse_feedback(data): result [err, feedback]
ParseFeedback(data, id, t) ==
    IF data.kind # "dict" THEN [err |-> AttributeError, feedback |-> None]
    ELSE LET cd == CorrectionsData(data.v[1]) IN
         IF cd.err # NoError THEN [err |-> cd.err, feedback |-> None]
         ELSE LET r == ParseCorrections(cd.entries, <<>>) IN
              IF r.err # NoError THEN [err |-> r.err, feedback |-> None]
              ELSE [err |-> NoError,
                    feedback |-> Some(FeedbackCreate(r.corrections,
                                                     Suggestions(data.v[1]),
                                                     id, t))]

----------------------------------------------------------------------------
(* LLMSummaryGenerator._parse_summary                                      *)

\* ConversationSummary.create with all its fields: result [err, summary]
SummaryCreate(fluency_score, strengths, weaknesses, overall_remarks, id, t) ==
    IF ~(0 <= fluency_score /\ fluency_score <= 100)
    THEN [err |-> InvalidFeedbackError, summary |-> None]
    ELSE [err |-> NoError,
          summary |-> Some([id |-> id, fluency_score |-> fluency_score,
                            strengths |-> strengths,
                            weaknesses |-> weaknesses,
                            overall_remarks |-> overall_remarks,
                            created_at |-> t])]

\* lines 125-131: result [err, score]
FluencyScore(fluency_score) ==
    IF fluency_score.kind = "nan" THEN [err |-> ValueError, score |-> 50]
    ELSE IF fluency_score.kind \in {"int", "bool", "float"}
    THEN [err |-> NoError, score |-> Max(0, Min(100, PyInt(fluency_score)))]
    ELSE [err |-> NoError, score |-> 50]

\* [str(s) for s in xs if s]
RECURSIVE StrOfTruthy(_)
StrOfTruthy(xs) ==
    IF xs = <<>> THEN <<>>
    ELSE IF PyTruthy(Head(xs)) THEN <<PyStr(Head(xs))>> \o StrOfTruthy(Tail(xs))
    ELSE StrOfTruthy(Tail(xs))

\* lines 133-141
StringList(j) == IF j.kind # "list" THEN <<>> ELSE StrOfTruthy(j.v)

\* str(data.get("overall_remarks", ""))
OverallRemarks(j) == IF j.kind = "absent" THEN <<>> ELSE PyStr(j)

\* _parse_summary(data): result [err, summary]
ParseSummary(data, id, t) ==
    IF data.kind # "dict" THEN [err |-> AttributeError, summary |-> None]
    ELSE LET d == data.v[1]
             s == FluencyScore(d.fluency_score)
         IN  IF s.err # NoError THEN [err |-> s.err, summary |-> None]
             ELSE SummaryCreate(s.score, StringList(d.strengths),
                                StringList(d.weaknesses),
                                OverallRemarks(d.overall_remarks), id, t)

----------------------------------------------------------------------------
(* Specification SpecParse: a decoded reply is handed to _parse_feedback   *)
(* or to _parse_summary.                                                   *)

MaxEntries == 2
MaxScore == 150

TypeValues ==
    {Null, Str(<<" ", "G", "r", "a", "m", "m", "a", "r">>), Str(PhrasingKey),
     Str(<<"x">>)}

\* entries of the corrections array: objects, and one string
Entries ==
    {Obj([type |-> ty, original |-> o, corrected |-> c, explanation |-> x]) :
        ty \in TypeValues, o \in {Str(<<>>), Str(<<"a">>)},
        c \in {Absent, Str(<<"a">>)},
        x \in {Absent, Null, Str(<<" ", "a">>)}}
    \cup {Str(<<"a">>)}

EntryLists == UNION {[1..n -> Entries] : n \in 0..MaxEntries}

FeedbackPayloads ==
    {Obj([corrections |-> List(es), suggestions |-> s]) :
        es \in EntryLists, s \in {Absent, List(<<Str(<<"a">>)>>)}}
    \cup {Obj([corrections |-> c, suggestions |-> Str(<<"a">>)]) :
             c \in {Absent, Null, Str(<<>>)}}
    \cup {List(<<>>)}

ScoreValues ==
    {Num(n) : n \in (0 - MaxScore)..MaxScore}
    \cup {Absent, Null, NaN, Bool(TRUE), Str(<<"a">>), Float(999), Float(-5),
          Float(1505)}

StringListValues ==
    {Absent, Null, Str(<<"a">>),
     List(<<Str(<<"a">>), Null, Str(<<>>), Num(0), Num(70)>>)}

SummaryPayloads ==
    {Obj([fluency_score |-> f, strengths |-> s, weaknesses |-> w,
          overall_remarks |-> r]) :
        f \in ScoreValues, s \in StringListValues,
        w \in {Absent, List(<<Str(<<"a">>)>>)},
        r \in {Absent, Null, Str(<<"a">>)}}
    \cup {List(<<>>)}

InitParse ==
    /\ now = 0
    /\ nextId = 2
    /\ conv = ConversationCreate(<<"a">>, FRIENDLY, 1, 0).conv[1]
    /\ last = [op |-> "create", via |-> "entity", err |-> NoError,
               before |-> conv, saved |-> FALSE, arg |-> None]
    /\ TurnIdle
    /\ RegistryIdle
    /\ FeedbackIdle
    /\ CallIdle
    /\ UseCaseIdle
    /\ ClientIdle
    /\ RoundIdle
    /\ \/ \E data \in FeedbackPayloads :
             payload = [for |-> "feedback", data |-> data]
       \/ \E data \in SummaryPayloads :
             payload = [for |-> "summary", data |-> data]
    /\ parsed = NotParsed

\* self._parse_feedback(data)
ParseFeedbackCall ==
    /\ payload.for = "feedback"
    /\ ~parsed.done
    /\ LET r == ParseFeedback(payload.data, nextId, now) IN
          /\ parsed' = [done |-> TRUE, err |-> r.err, result |-> r.feedback]
          /\ nextId' = IF r.err = NoError THEN nextId + 1 ELSE nextId
    /\ UNCHANGED <<now, convVars, turnVars, regVars, fbVars, call, ucVars,
                   payload, clientVars, roundVars>>

\* self._parse_summary(data)
ParseSummaryCall ==
    /\ payload.for = "summary"
    /\ ~parsed.done
    /\ LET r == ParseSummary(payload.data, nextId, now) IN
          /\ parsed' = [done |-> TRUE, err |-> r.err, result |-> r.summary]
          /\ nextId' = IF r.err = NoError THEN nextId + 1 ELSE nextId
    /\ UNCHANGED <<now, convVars, turnVars, regVars, fbVars, call, ucVars,
                   payload, clientVars, roundVars>>

NextParse ==
    \/ ParseFeedbackCall
    \/ ParseSummaryCall

SpecParse == InitParse /\ [][NextParse]_vars

----------------------------------------------------------------------------
(* Properties of the reply parsers, checked under SpecParse                *)

\* the entry passes the checks the parsing policy names
Keeps(entry) ==
    /\ entry.kind = "dict"
    /\ NormalizeType(entry.v[1].type) # None
    /\ PyTruthy(entry.v[1].original)
    /\ PyTruthy(entry.v[1].corrected)

KeptEntries(entries) == SelectSeq(entries, Keeps)

\* C26: parsing a reply whose corrections field is an array never raises,
\* and the corrections of the Feedback are exactly the entries whose type
\* normalizes to grammar, vocabulary or phrasing and whose original and
\* corrected fields are non-empty, in the order of the array; every other
\* entry is left out.
C26_KeepsValidEntriesOnly ==
    /\ parsed.done
    /\ payload.for = "feedback"
    /\ payload.data.kind = "dict"
    /\ payload.data.v[1].corrections.kind = "list"
    => LET kept == KeptEntries(payload.data.v[1].corrections.v) IN
       /\ parsed.err = NoError
       /\ Len(parsed.result[1].corrections) = Len(kept)
       /\ \A i \in 1..Len(kept) :
             LET c == parsed.result[1].corrections[i] IN
             /\ c.original = kept[i].v[1].original
             /\ c.corrected = kept[i].v[1].corrected
             /\ Some(c.correction_type) = NormalizeType(kept[i].v[1].type)

\* C27: an integer score n gives min(100, max(0, n)); a missing score or
\* one that is not a number gives 50; the parser never fails on the range
\* check of ConversationSummary.create and the score of the summary is
\* within 0..100; strengths and weaknesses that are missing or not a list
\* give an empty list.
C27_ClampsScore ==
    /\ parsed.done
    /\ payload.for = "summary"
    /\ payload.data.kind = "dict"
    => LET d == payload.data.v[1] IN
       /\ parsed.err # InvalidFeedbackError
       /\ parsed.err = NoError =>
             /\ parsed.result[1].fluency_score \in 0..100
             /\ d.strengths.kind # "list" =>
                   parsed.result[1].strengths = <<>>
             /\ d.weaknesses.kind # "list" =>
                   parsed.result[1].weaknesses = <<>>
       /\ d.fluency_score.kind = "int" =>
             /\ parsed.err = NoError
             /\ parsed.result[1].fluency_score
                  = Min(100, Max(0, d.fluency_score.v[1]))
       /\ d.fluency_score.kind \notin {"int", "float", "nan"} =>
             /\ parsed.err = NoError
             /\ parsed.result[1].fluency_score = 50

----------------------------------------------------------------------------
(* LLMFeedbackAnalyzer.analyze_message and LLMSummaryGenerator             *)
(* .create_summary.  reply is what the client call and json.loads give:    *)
(* raised is the exception of client.complete (or NoError), wellformed     *)
(* tells whether json.loads accepts response.content, data is what it      *)
(* returns.                                                                *)

SummaryGenerationError == "SummaryGenerationError"

Reply(exc, wellformed, data) ==
    [raised |-> exc, wellformed |-> wellformed, data |-> data]

\* analyze_message without the `except Exception` clause
AnalyzeMessage_NoWrap(reply, id, t) ==
    IF reply.raised # NoError THEN [err |-> reply.raised, feedback |-> None]
    ELSE IF ~reply.wellformed
    THEN [err |-> FeedbackAnalysisError, feedback |-> None]
    ELSE ParseFeedback(reply.data, id, t)

\* analyze_message(message): result [err, feedback]
AnalyzeMessage(reply, id, t) ==
    LET body == IF reply.raised # NoError
                THEN [err |-> reply.raised, feedback |-> None]
                ELSE IF ~reply.wellformed
                THEN [err |-> FeedbackAnalysisError, feedback |-> None]
                ELSE ParseFeedback(reply.data, id, t)
    IN  IF body.err = NoError THEN body
        ELSE IF body.err = FeedbackAnalysisError THEN body
        ELSE [err |-> FeedbackAnalysisError, feedback |-> None]

\* create_summary(conversation): result [err, summary]
CreateSummary(reply, id, t) ==
    LET body == IF reply.raised # NoError
                THEN [err |-> reply.raised, summary |-> None]
                ELSE IF ~reply.wellformed
                THEN [err |-> SummaryGenerationError, summary |-> None]
                ELSE ParseSummary(reply.data, id, t)
    IN  IF body.err = NoError THEN body
        ELSE IF body.err = SummaryGenerationError THEN body
        ELSE [err |-> SummaryGenerationError, summary |-> None]

----------------------------------------------------------------------------
(* FeedbackUseCases and CreateSummary.  st is what the repository holds:   *)
(* the conversation and the Feedback objects its messages refer to.  The   *)
(* result of a use case is [err, stored, saves, analysis, providerCalls]:  *)
(* the exception that reaches the caller, the repository content after     *)
(* the call, the number of repository.save calls, the exception of the     *)
(* provider and the number of provider calls.                              *)

\* ConversationRepository.get: result [err, conv]
Get(st, id) ==
    IF st.conversation.id = id
    THEN [err |-> NoError, conv |-> Some(st.conversation)]
    ELSE [err |-> ConversationNotFoundError, conv |-> None]

\* position in c.messages of the message with this id, 0 when there is none
FindMessage(c, message_id) ==
    IF \E i \in 1..Len(c.messages) : c.messages[i].id = message_id
    THEN CHOOSE i \in 1..Len(c.messages) : c.messages[i].id = message_id
    ELSE 0

\* ConversationRepository.get_by_message_id: result [err, conv]
GetByMessageId(st, message_id) ==
    IF FindMessage(st.conversation, message_id) # 0
    THEN [err |-> NoError, conv |-> Some(st.conversation)]
    ELSE [err |-> MessageNotFoundError, conv |-> None]

\* the Feedback object with this id
FeedbackOf(st, id) ==
    st.feedbacks[CHOOSE i \in 1..Len(st.feedbacks) : st.feedbacks[i].id = id]

Outcome(err, st, nsaves, analysis, providerCalls) ==
    [err |-> err, stored |-> st, saves |-> nsaves, analysis |-> analysis,
     providerCalls |-> providerCalls]

\* FeedbackUseCases.request
FeedbackRequest(st, message_id, reply, id, t) ==
    LET g == GetByMessageId(st, message_id) IN
    IF g.err # NoError THEN Outcome(g.err, st, 0, NoError, 0)
    ELSE LET conversation == g.conv[1]
             i == FindMessage(conversation, message_id)
             a == AnalyzeMessage(reply, id, t)
         IN  IF a.err # NoError THEN Outcome(a.err, st, 0, a.err, 1)
             ELSE LET r == AttachFeedback(conversation.messages[i],
                                          a.feedback[1])
                  IN  IF r.err # NoError
                      THEN Outcome(r.err, st, 0, NoError, 1)
                      ELSE Outcome(
                             NoError,
                             [conversation |->
                                  [conversation EXCEPT !.messages[i] = r.msg],
                              feedbacks |->
                                  Append(st.feedbacks, a.feedback[1])],
                             1, NoError, 1)

\* rate with the save placed before the check for an attached feedback
FeedbackRate_SaveFirst(st, message_id, rating, comment) ==
    LET g == GetByMessageId(st, message_id) IN
    IF g.err # NoError THEN Outcome(g.err, st, 0, NoError, 0)
    ELSE LET m == g.conv[1].messages[FindMessage(g.conv[1], message_id)] IN
         IF m.feedback = None
         THEN Outcome(FeedbackNotFoundError, st, 1, NoError, 0)
         ELSE Outcome(
                NoError,
                [st EXCEPT !.feedbacks =
                    [k \in 1..Len(st.feedbacks) |->
                        IF st.feedbacks[k].id = m.feedback[1]
                        THEN Rate(st.feedbacks[k], rating, comment)
                        ELSE st.feedbacks[k]]],
                1, NoError, 0)

\* FeedbackUseCases.rate
FeedbackRate(st, message_id, rating, comment) ==
    LET g == GetByMessageId(st, message_id) IN
    IF g.err # NoError THEN Outcome(g.err, st, 0, NoError, 0)
    ELSE LET m == g.conv[1].messages[FindMessage(g.conv[1], message_id)] IN
         IF m.feedback = None
         THEN Outcome(FeedbackNotFoundError, st, 0, NoError, 0)
         ELSE Outcome(
                NoError,
                [st EXCEPT !.feedbacks =
                    [k \in 1..Len(st.feedbacks) |->
                        IF st.feedbacks[k].id = m.feedback[1]
                        THEN Rate(st.feedbacks[k], rating, comment)
                        ELSE st.feedbacks[k]]],
                1, NoError, 0)

\* execute without the test for an empty message list
CreateSummaryExecute_NoMessageCheck(st, conversation_id, reply, id, t) ==
    LET g == Get(st, conversation_id) IN
    IF g.err # NoError THEN Outcome(g.err, st, 0, NoError, 0)
    ELSE IF g.conv[1].status # COMPLETED
    THEN Outcome(InvalidConversationStateError, st, 0, NoError, 0)
    ELSE LET s == CreateSummary(reply, id, t) IN
         Outcome(s.err, st, 0, s.err, 1)

\* CreateSummary.execute
CreateSummaryExecute(st, conversation_id, reply, id, t) ==
    LET g == Get(st, conversation_id) IN
    IF g.err # NoError THEN Outcome(g.err, st, 0, NoError, 0)
    ELSE IF g.conv[1].status # COMPLETED
    THEN Outcome(InvalidConversationStateError, st, 0, NoError, 0)
    ELSE IF g.conv[1].messages = <<>>
    THEN Outcome(InvalidConversationStateError, st, 0, NoError, 0)
    ELSE LET s == CreateSummary(reply, id, t) IN
         Outcome(s.err, st, 0, s.err, 1)

----------------------------------------------------------------------------
(* Specification SpecUseCases: the repository holds one conversation;      *)
(* request, rate and create-summary are called with the message id, the    *)
(* conversation id, the rating and the comment chosen at the start, and    *)
(* with a provider whose reply varies from call to call.                   *)

MaxCalls == 3

FirstFeedbackId == MaxMsgs + 2

RoleLists == UNION {[1..n -> MessageRole] : n \in 0..MaxMsgs}

\* conversation.add_message(content, role) for each role, ids from id on
RECURSIVE WithMessages(_, _, _)
WithMessages(c, roles, id) ==
    IF roles = <<>> THEN c
    ELSE WithMessages(AddMessage(c, <<"a">>, Head(roles), id, 0).conv,
                      Tail(roles), id + 1)

InStatus(c, status) ==
    CASE status = ACTIVE -> c
      [] status = ARCHIVED -> Archive(c, 0).conv
      [] status = COMPLETED -> End(c, 0).conv

\* the conversations the repository may hold at the start
HeldConversations ==
    {InStatus(WithMessages(ConversationCreate(<<"a">>, FRIENDLY, 1, 0).conv[1],
                           roles, 2),
              status) :
        roles \in RoleLists, status \in ConversationStatus}

\* ids of the messages a conversation may hold, and one that none holds
MessageIds == 2..(MaxMsgs + 2)

ValidEntry ==
    Obj([type |-> Str(GrammarKey), original |-> Str(<<"a">>),
         corrected |-> Str(<<"a", "a">>), explanation |-> Str(<<"a">>)])

FeedbackReplies ==
    {Reply(NoError, TRUE,
           Obj([corrections |-> List(<<ValidEntry>>),
                suggestions |-> List(<<Str(<<"a">>)>>)])),
     Reply(PartnerConnectionError, FALSE, Null),
     Reply(NoError, FALSE, Null),
     Reply(NoError, TRUE, List(<<>>))}

SummaryReplies ==
    {Reply(NoError, TRUE,
           Obj([fluency_score |-> Num(150), strengths |-> Absent,
                weaknesses |-> Absent, overall_remarks |-> Str(<<"a">>)])),
     Reply(PartnerResponseError, FALSE, Null),
     Reply(NoError, FALSE, Null)}

InitUseCases ==
    /\ now = 0
    /\ nextId = FirstFeedbackId
    /\ conv = ConversationCreate(<<"a">>, FRIENDLY, 1, 0).conv[1]
    /\ last = [op |-> "create", via |-> "entity", err |-> NoError,
               before |-> conv, saved |-> FALSE, arg |-> None]
    /\ TurnIdle
    /\ RegistryIdle
    /\ FeedbackIdle
    /\ CallIdle
    /\ ParseIdle
    /\ ClientIdle
    /\ RoundIdle
    /\ \E c \in HeldConversations : stored = [conversation |-> c,
                                              feedbacks |-> <<>>]
    /\ \E message_id \in MessageIds, conversation_id \in {1, 9},
          rating \in BOOLEAN, comment \in {None, Some(<<"a">>)} :
          ucall = [call |-> [NoUseCase EXCEPT
                                 !.message_id = message_id,
                                 !.conversation_id = conversation_id,
                                 !.rating = rating, !.comment = comment],
                   before |-> stored]
    /\ saveCount = 0
    /\ okCount = 0

UseCaseCalled(op, r) ==
    /\ stored' = r.stored
    /\ ucall' = [call |-> [ucall.call EXCEPT
                               !.op = op, !.err = r.err, !.saves = r.saves,
                               !.analysis = r.analysis,
                               !.providerCalls = r.providerCalls],
                 before |-> stored]
    /\ saveCount' = saveCount + r.saves

\* await feedback_use_cases.request(RequestFeedbackInput(message_id))
RequestFeedback ==
    /\ nextId < FirstFeedbackId + MaxCalls
    /\ \E reply \in FeedbackReplies :
          LET r == FeedbackRequest(stored, ucall.call.message_id, reply,
                                   nextId, now) IN
          /\ UseCaseCalled("request", r)
          /\ nextId' = IF r.providerCalls = 1 /\ r.analysis = NoError
                       THEN nextId + 1 ELSE nextId
          /\ okCount' = IF r.err = NoError THEN okCount + 1 ELSE okCount
    /\ UNCHANGED <<now, convVars, turnVars, regVars, fbVars, call,
                   parseVars, clientVars, roundVars>>

\* await feedback_use_cases.rate(RateFeedbackInput(message_id, rating,
\* comment))
RateFeedback ==
    /\ saveCount < MaxCalls
    /\ LET r == FeedbackRate(stored, ucall.call.message_id, ucall.call.rating,
                             ucall.call.comment) IN
          /\ UseCaseCalled("rate", r)
          /\ okCount' = IF r.err = NoError THEN okCount + 1 ELSE okCount
    /\ UNCHANGED <<now, nextId, convVars, turnVars, regVars, fbVars, call,
                   parseVars, clientVars, roundVars>>

\* await create_summary.execute(CreateSummaryInput(conversation_id))
ExecuteCreateSummary ==
    /\ nextId < FirstFeedbackId + MaxCalls
    /\ \E reply \in SummaryReplies :
          LET r == CreateSummaryExecute(stored, ucall.call.conversation_id,
                                        reply, nextId, now) IN
          /\ UseCaseCalled("create_summary", r)
          /\ nextId' = IF r.providerCalls = 1 /\ r.analysis = NoError
                       THEN nextId + 1 ELSE nextId
    /\ UNCHANGED <<now, convVars, turnVars, regVars, fbVars, call, okCount,
                   parseVars, clientVars, roundVars>>

NextUseCases ==
    \/ RequestFeedback
    \/ RateFeedback
    \/ ExecuteCreateSummary

SpecUseCases == InitUseCases /\ [][NextUseCases]_vars

----------------------------------------------------------------------------
(* Properties of the feedback and summary use cases, checked under         *)
(* SpecUseCases                                                            *)

\* the message the last call named, as it was before the call
Target ==
    ucall.before.conversation.messages[
        FindMessage(ucall.before.conversation, ucall.call.message_id)]

TargetFound ==
    FindMessage(ucall.before.conversation, ucall.call.message_id) # 0

\* C22: request on a message that is COACH-authored or that already has
\* feedback fails with InvalidMessageContentError, leaves the conversation
\* and its feedback as they were and does not invoke save.
C22_RequestRejectsIneligible ==
    /\ ucall.call.op = "request"
    /\ TargetFound
    /\ (Target.role = COACH \/ Target.feedback # None)
    => /\ ucall.call.err = InvalidMessageContentError
       /\ stored = ucall.before
       /\ ucall.call.saves = 0

\* C23: rate on a message without feedback fails with
\* FeedbackNotFoundError, changes nothing and does not invoke save; rate on
\* a message with feedback returns, sets the rating of that feedback and
\* invokes save exactly once; the number of saves is the number of request
\* and rate calls that returned.
C23_RateSavesOncePerCall ==
    /\ saveCount = okCount
    /\ ucall.call.op = "rate" /\ TargetFound =>
          /\ Target.feedback = None =>
                /\ ucall.call.err = FeedbackNotFoundError
                /\ stored = ucall.before
                /\ ucall.call.saves = 0
          /\ Target.feedback # None =>
                /\ ucall.call.err = NoError
                /\ ucall.call.saves = 1
                /\ stored.conversation = ucall.before.conversation
                /\ FeedbackOf(stored, Target.feedback[1]).user_rating
                      = Some(ucall.call.rating)

\* two rate calls on a message with feedback have returned: three saves
\* with the one of request
C23_Witness ==
    /\ ucall.call.op = "rate"
    /\ ucall.call.err = NoError
    /\ saveCount = 3
    /\ ucall.before.feedbacks # <<>>
    /\ ucall.before.feedbacks[1].user_rating # None

\* C24: execute on a conversation that is not COMPLETED or that has no
\* message fails with InvalidConversationStateError without any call of the
\* summary provider; on a COMPLETED conversation with a message the
\* provider is called once and the call does not fail with
\* InvalidConversationStateError.
C24_SummaryNeedsCompletedWithMessages ==
    /\ ucall.call.op = "create_summary"
    /\ ucall.call.conversation_id = ucall.before.conversation.id
    => LET c == ucall.before.conversation IN
       /\ (c.status # COMPLETED \/ c.messages = <<>>) =>
             /\ ucall.call.err = InvalidConversationStateError
             /\ ucall.call.providerCalls = 0
       /\ (c.status = COMPLETED /\ c.messages # <<>>) =>
             /\ ucall.call.err # InvalidConversationStateError
             /\ ucall.call.providerCalls = 1
       /\ stored = ucall.before
       /\ ucall.call.saves = 0

\* a COMPLETED conversation without messages was refused
C24_Witness ==
    /\ ucall.call.op = "create_summary"
    /\ ucall.call.conversation_id = ucall.before.conversation.id
    /\ ucall.before.conversation.status = COMPLETED
    /\ ucall.before.conversation.messages = <<>>
    /\ ucall.call.err = InvalidConversationStateError

\* C28: the analyzer called by request returns a Feedback or raises
\* FeedbackAnalysisError, whatever the client call, json.loads or the
\* parsing raised; when it raises, request fails with that error, the
\* conversation and its feedback are as they were and save is not invoked;
\* when it returns, the Feedback it returned carries the parsed corrections
\* and suggestions and no rating.
C28_AnalysisAllOrNothing ==
    ucall.call.op = "request" /\ ucall.call.providerCalls = 1 =>
        /\ ucall.call.analysis \in {NoError, FeedbackAnalysisError}
        /\ ucall.call.analysis = FeedbackAnalysisError =>
              /\ ucall.call.err = FeedbackAnalysisError
              /\ stored = ucall.before
              /\ ucall.call.saves = 0
        /\ ucall.call.err = NoError =>
              LET f == stored.feedbacks[Len(stored.feedbacks)] IN
              /\ Len(stored.feedbacks) = Len(ucall.before.feedbacks) + 1
              /\ Len(f.corrections) = 1
              /\ f.suggestions # <<>>
              /\ f.user_rating = None

\* the analyzer raised for a USER message without feedback: request failed
\* and the repository content is what it was
C28_Witness ==
    /\ ucall.call.op = "request"
    /\ ucall.call.analysis = FeedbackAnalysisError
    /\ TargetFound
    /\ Target.role = USER
    /\ Target.feedback = None
    /\ stored = ucall.before

----------------------------------------------------------------------------
(* Vendor client adapters: OpenAIClient, AnthropicClient, OllamaClient.    *)
(* What the vendor does is a script of items.  For complete the script has *)
(* one item, for complete_stream one item per chunk or line:               *)
(*   [t |-> "raise", exc]      the SDK / httpx call raises exc             *)
(*   [t |-> "content", text]   a reply, chunk or line carrying text        *)
(*   [t |-> "nocontent"]       a reply or chunk without text               *)
(*   [t |-> "nochoices"]       OpenAI: response.choices is empty           *)
(*   [t |-> "notext"]          Anthropic: content[0] is not a text block   *)
(*   [t |-> "empty"]           Ollama: an empty line                       *)
(*   [t |-> "invalid"]         Ollama: a body or line that is not JSON     *)
(*   [t |-> "nomessage"]       Ollama: a JSON object without "message"     *)
(*   [t |-> "nondict"]         Ollama: JSON that is not an object, or      *)
(*                             whose "message" is not an object            *)
(*   [t |-> "done"]            Ollama: a line with "done": true            *)
(* An exception is [cls, text]: its class and str(e).                      *)

OPENAI == "openai"
ANTHROPIC == "anthropic"
OLLAMA == "ollama"
Vendors == {OPENAI, ANTHROPIC, OLLAMA}

Exc(cls, text) == [cls |-> cls, text |-> text]
RaiseItem(e) == [t |-> "raise", exc |-> e, text |-> <<>>]
ContentItem(text) == [t |-> "content", exc |-> Exc("", <<>>), text |-> text]
Item(t) == [t |-> t, exc |-> Exc("", <<>>), text |-> <<>>]

ConnectionWord == <<"c", "o", "n", "n", "e", "c", "t", "i", "o", "n">>
TimeoutWord == <<"t", "i", "m", "e", "o", "u", "t">>

\* needle in hay
Contains(hay, needle) ==
    \E i \in 1..(Len(hay) - Len(needle) + 1) :
        SubSeq(hay, i, i + Len(needle) - 1) = needle

\* the except clause of OpenAIClient and AnthropicClient
MapByText(e) ==
    IF \/ Contains(Lower(e.text), ConnectionWord)
       \/ Contains(Lower(e.text), TimeoutWord)
    THEN PartnerConnectionError
    ELSE PartnerResponseError

\* the except clauses of OllamaClient, tried in order; an exception none of
\* them names propagates as it is
MapByClass(e) ==
    CASE e.cls = "TimeoutException" -> PartnerConnectionError
      [] e.cls = "ConnectError" -> PartnerConnectionError
      [] e.cls = "HTTPStatusError" -> PartnerResponseError
      [] e.cls = "RequestError" -> PartnerConnectionError
      [] OTHER -> e.cls

IndexError == "IndexError"
KeyError == "KeyError"

Returned(content) ==
    [pc |-> "returned", i |-> 2, yielded |-> <<>>, content |-> Some(content),
     err |-> NoError]
Failed(d, err) == [d EXCEPT !.pc = "raised", !.err = err]

\* OpenAIClient.complete
OpenAIComplete(item) ==
    CASE item.t = "raise" -> Failed(NoDelivery, MapByText(item.exc))
      [] item.t = "nochoices" ->
            Failed(NoDelivery, MapByText(Exc(IndexError, <<"i", "n", "d", "e", "x">>)))
      [] item.t = "nocontent" -> Returned(<<>>)
      [] item.t = "content" -> Returned(item.text)

\* AnthropicClient.complete
AnthropicComplete(item) ==
    CASE item.t = "raise" -> Failed(NoDelivery, MapByText(item.exc))
      [] item.t = "notext" ->
            Failed(NoDelivery, MapByText(Exc(AttributeError, <<"t", "e", "x", "t">>)))
      [] item.t = "nocontent" -> Returned(<<>>)
      [] item.t = "content" -> Returned(item.text)

\* OllamaClient.complete
OllamaComplete(item) ==
    CASE item.t = "raise" -> Failed(NoDelivery, MapByClass(item.exc))
      [] item.t = "invalid" -> Failed(NoDelivery, PartnerResponseError)
      [] item.t \in {"nomessage", "nocontent"} ->
            Failed(NoDelivery, PartnerResponseError)
      [] item.t = "nondict" -> Failed(NoDelivery, TypeError)
      [] item.t = "content" -> Returned(item.text)

Complete(vendor, item) ==
    CASE vendor = OPENAI -> OpenAIComplete(item)
      [] vendor = ANTHROPIC -> AnthropicComplete(item)
      [] vendor = OLLAMA -> OllamaComplete(item)

Yield(d, i, text) ==
    [d EXCEPT !.pc = "suspended", !.i = i + 1,
              !.yielded = Append(@, text)]
Ended(d, i) == [d EXCEPT !.pc = "ended", !.i = i]

\* one resumption of the generator complete_stream returned: it runs from
\* item i of the script to its next yield, to its end or to a raise
RECURSIVE StreamResume(_, _, _, _)
StreamResume(vendor, script, d, i) ==
    IF i > Len(script) THEN Ended(d, i)
    ELSE LET item == script[i] IN
         CASE vendor = OPENAI ->
                 (CASE item.t = "raise" -> Failed(d, MapByText(item.exc))
                    [] item.t = "content" /\ item.text # <<>> ->
                          Yield(d, i, item.text)
                    [] OTHER -> StreamResume(vendor, script, d, i + 1))
           [] vendor = ANTHROPIC ->
                 (CASE item.t = "raise" -> Failed(d, MapByText(item.exc))
                    [] item.t = "content" -> Yield(d, i, item.text)
                    [] OTHER -> StreamResume(vendor, script, d, i + 1))
           [] vendor = OLLAMA ->
                 (CASE item.t = "raise" -> Failed(d, MapByClass(item.exc))
                    [] item.t = "content" /\ item.text # <<>> ->
                          Yield(d, i, item.text)
                    [] item.t = "nondict" -> Failed(d, AttributeError)
                    [] item.t = "done" -> Ended(d, i)
                    [] OTHER -> StreamResume(vendor, script, d, i + 1))

----------------------------------------------------------------------------
(* Specification SpecClients: one call of complete or complete_stream on   *)
(* one adapter, the vendor following a script chosen at the start.         *)

MaxItems == 2

Exceptions ==
    {Exc("TimeoutException", <<"T", "i", "m", "e", "o", "u", "t">>),
     Exc("ConnectError", <<"C", "o", "n", "n", "e", "c", "t", "i", "o", "n">>),
     Exc("HTTPStatusError", <<"5", "0", "0">>),
     Exc("RequestError", <<>>),
     Exc("RuntimeError", <<>>)}

CommonItems ==
    {RaiseItem(e) : e \in Exceptions}
    \cup {ContentItem(<<"a">>), ContentItem(<<>>), Item("nocontent")}

ItemsOf(vendor) ==
    CASE vendor = OPENAI -> CommonItems \cup {Item("nochoices")}
      [] vendor = ANTHROPIC -> CommonItems \cup {Item("notext")}
      [] vendor = OLLAMA ->
            CommonItems \cup {Item("invalid"), Item("nomessage"),
                              Item("nondict")}

StreamItemsOf(vendor) ==
    CASE vendor = OPENAI -> CommonItems
      [] vendor = ANTHROPIC -> CommonItems \ {Item("nocontent")}
      [] vendor = OLLAMA ->
            CommonItems \cup {Item("empty"), Item("invalid"), Item("nondict"),
                              Item("done")}

Scripts(items) == UNION {[1..n -> items] : n \in 0..MaxItems}

InitClients ==
    /\ now = 0
    /\ nextId = 2
    /\ conv = ConversationCreate(<<"a">>, FRIENDLY, 1, 0).conv[1]
    /\ last = [op |-> "create", via |-> "entity", err |-> NoError,
               before |-> conv, saved |-> FALSE, arg |-> None]
    /\ TurnIdle
    /\ RegistryIdle
    /\ FeedbackIdle
    /\ CallIdle
    /\ UseCaseIdle
    /\ ParseIdle
    /\ RoundIdle
    /\ \E vendor \in Vendors :
          \/ \E item \in ItemsOf(vendor) :
                vendorCall = [vendor |-> vendor, op |-> "complete",
                              script |-> <<item>>]
          \/ \E script \in Scripts(StreamItemsOf(vendor)) :
                vendorCall = [vendor |-> vendor, op |-> "complete_stream",
                              script |-> script]
    /\ delivery = NoDelivery

\* await client.complete(messages)
ClientComplete ==
    /\ vendorCall.op = "complete"
    /\ delivery.pc = "idle"
    /\ delivery' = Complete(vendorCall.vendor, vendorCall.script[1])
    /\ UNCHANGED <<now, nextId, convVars, turnVars, regVars, fbVars, call,
                   ucVars, parseVars, vendorCall, roundVars>>

\* one `async for` round on client.complete_stream(messages)
ClientStreamNext ==
    /\ vendorCall.op = "complete_stream"
    /\ delivery.pc \in {"idle", "suspended"}
    /\ delivery' = StreamResume(vendorCall.vendor, vendorCall.script,
                                delivery, delivery.i)
    /\ UNCHANGED <<now, nextId, convVars, turnVars, regVars, fbVars, call,
                   ucVars, parseVars, vendorCall, roundVars>>

NextClients ==
    \/ ClientComplete
    \/ ClientStreamNext

SpecClients == InitClients /\ [][NextClients]_vars

----------------------------------------------------------------------------
(* Properties of the vendor client adapters, checked under SpecClients     *)

\* C29: whatever adapter and operation, a call that fails, before the first
\* fragment or between fragments, fails with PartnerConnectionError or with
\* PartnerResponseError and with nothing else.
C29_OnlyTwoFailureKinds ==
    delivery.pc = "raised" =>
        delivery.err \in {PartnerConnectionError, PartnerResponseError}

----------------------------------------------------------------------------
(* The reconstitute() loaders of the four entities                         *)

\* Conversation.reconstitute
ConversationReconstitute(id, context_topic, messages, created_at, updated_at, status, tone, summary) ==
    [id |-> id, context_topic |-> context_topic, messages |-> messages,
     created_at |-> created_at, updated_at |-> updated_at, status |-> status,
     tone |-> tone, summary |-> summary]

\* Feedback.reconstitute
FeedbackReconstitute(id, corrections, suggestions, created_at, user_rating, user_comment) ==
    [id |-> id, corrections |-> corrections, suggestions |-> suggestions,
     created_at |-> created_at, user_rating |-> user_rating,
     user_comment |-> user_comment]

\* ConversationSummary.reconstitute
SummaryReconstitute(id, fluency_score, strengths, weaknesses, overall_remarks, created_at) ==
    [id |-> id, fluency_score |-> fluency_score, strengths |-> strengths,
     weaknesses |-> weaknesses, overall_remarks |-> overall_remarks,
     created_at |-> created_at]

\* a loader that validates and normalises as create() does
Reconstitute_Validating(kind, e) ==
    CASE kind = "conversation" ->
            IF IsBlank(e.context_topic)
            THEN [err |-> InvalidContextError, entity |-> None]
            ELSE [err |-> NoError,
                  entity |-> Some([e EXCEPT !.context_topic = Strip(@)])]
      [] kind = "message" ->
            IF IsBlank(e.content)
            THEN [err |-> InvalidMessageContentError, entity |-> None]
            ELSE [err |-> NoError, entity |-> Some(e)]
      [] kind = "feedback" -> [err |-> NoError, entity |-> Some(e)]
      [] kind = "summary" ->
            IF ~(0 <= e.fluency_score /\ e.fluency_score <= 100)
            THEN [err |-> InvalidFeedbackError, entity |-> None]
            ELSE [err |-> NoError, entity |-> Some(e)]

\* cls.reconstitute(...) with every field of e: result [err, entity]
Reconstitute(kind, e) ==
    [err |-> NoError,
     entity |->
        Some(CASE kind = "conversation" ->
                     ConversationReconstitute(e.id, e.context_topic,
                                              e.messages, e.created_at,
                                              e.updated_at, e.status, e.tone,
                                              e.summary)
               [] kind = "message" ->
                     MessageReconstitute(e.id, e.content, e.role,
                                         e.created_at, e.feedback)
               [] kind = "feedback" ->
                     FeedbackReconstitute(e.id, e.corrections, e.suggestions,
                                          e.created_at, e.user_rating,
                                          e.user_comment)
               [] kind = "summary" ->
                     SummaryReconstitute(e.id, e.fluency_score, e.strengths,
                                         e.weaknesses, e.overall_remarks,
                                         e.created_at))]

----------------------------------------------------------------------------
(* Specification SpecRoundTrip: an entity made by create(), or a stored    *)
(* row that create() would have refused, is loaded by reconstitute(), and  *)
(* what was loaded is loaded again.                                        *)

MaxReloads == 2
MaxStoredScore == 150

Origin(kind, how, e) == [kind |-> kind, how |-> how, entity |-> e]

\* what create() returns for the arguments it accepts
CreatedEntities ==
    {Origin("conversation", "create",
            ConversationCreate(topic, tone, 1, t).conv[1]) :
        topic \in {<<"a">>, <<" ", "a">>},
        tone \in {FRIENDLY, "formal"}, t \in 0..MaxClock}
    \cup {Origin("message", "create",
                 MessageCreate(content, role, 1, t).msg[1]) :
             content \in {<<"a">>, <<" ", "a">>}, role \in MessageRole,
             t \in 0..MaxClock}
    \cup {Origin("feedback", "create",
                 FeedbackCreate(<<Correction(Str(<<"a">>), Str(<<"a">>),
                                             <<>>, GRAMMAR)>>,
                                suggestions, 1, t)) :
             suggestions \in {<<>>, <<Str(<<"a">>)>>}, t \in 0..MaxClock}
    \cup {Origin("summary", "create",
                 SummaryCreate(score, <<>>, <<<<"a">>>>, <<"a">>, 1, 0)
                     .summary[1]) :
             score \in 0..100}

\* rows of the persistence layer, valid or not
StoredRows ==
    {Origin("conversation", "stored",
            [id |-> 1, context_topic |-> topic, messages |-> <<>>,
             created_at |-> 1, updated_at |-> 0, status |-> status,
             tone |-> FRIENDLY, summary |-> None]) :
        topic \in {<<>>, <<" ">>, <<" ", "a">>},
        status \in ConversationStatus}
    \cup {Origin("message", "stored",
                 [id |-> 1, content |-> content, role |-> COACH,
                  created_at |-> 0, feedback |-> fb]) :
             content \in {<<>>, <<" ">>}, fb \in {None, Some(9)}}
    \cup {Origin("feedback", "stored",
                 Rate(FeedbackCreate(<<>>, <<>>, 1, 0), rating, comment)) :
             rating \in BOOLEAN, comment \in {None, Some(<<"a">>)}}
    \cup {Origin("summary", "stored",
                 [id |-> 1, fluency_score |-> score, strengths |-> <<>>,
                  weaknesses |-> <<>>, overall_remarks |-> <<>>,
                  created_at |-> 0]) :
             score \in ((0 - MaxStoredScore)..(0 - 1))
                       \cup (101..MaxStoredScore)}

NotLoaded == [n |-> 0, err |-> NoError, entity |-> None]

InitRoundTrip ==
    /\ now = 0
    /\ nextId = 2
    /\ conv = ConversationCreate(<<"a">>, FRIENDLY, 1, 0).conv[1]
    /\ last = [op |-> "create", via |-> "entity", err |-> NoError,
               before |-> conv, saved |-> FALSE, arg |-> None]
    /\ TurnIdle
    /\ RegistryIdle
    /\ FeedbackIdle
    /\ CallIdle
    /\ UseCaseIdle
    /\ ParseIdle
    /\ ClientIdle
    /\ origin \in CreatedEntities \cup StoredRows
    /\ rebuilt = NotLoaded

\* cls.reconstitute(...) with the fields of the entity made by create() or
\* of the stored row
Load ==
    /\ rebuilt.n = 0
    /\ LET r == Reconstitute(origin.kind, origin.entity) IN
          rebuilt' = [n |-> 1, err |-> r.err, entity |-> r.entity]
    /\ UNCHANGED <<now, nextId, convVars, turnVars, regVars, fbVars, call,
                   ucVars, parseVars, clientVars, origin>>

\* cls.reconstitute(...) with the fields of what the last load returned
Reload ==
    /\ rebuilt.n > 0
    /\ rebuilt.n < MaxReloads
    /\ rebuilt.err = NoError
    /\ LET r == Reconstitute(origin.kind, rebuilt.entity[1]) IN
          rebuilt' = [n |-> rebuilt.n + 1, err |-> r.err,
                      entity |-> r.entity]
    /\ UNCHANGED <<now, nextId, convVars, turnVars, regVars, fbVars, call,
                   ucVars, parseVars, clientVars, origin>>

NextRoundTrip ==
    \/ Load
    \/ Reload

SpecRoundTrip == InitRoundTrip /\ [][NextRoundTrip]_vars

----------------------------------------------------------------------------
(* Properties of the loaders, checked under SpecRoundTrip                  *)

\* C25: reconstitute() given every field of an entity made by create()
\* returns an equal entity; given a stored row, valid or not (score 150,
\* empty or blank topic, empty content), it does not raise and returns the
\* row's fields unchanged; loading again what was loaded changes nothing.
C25_ReconstituteRoundTrip ==
    rebuilt.n > 0 =>
        /\ rebuilt.err = NoError
        /\ rebuilt.entity = Some(origin.entity)

\* a stored summary with score 150 was loaded twice and still has 150
C25_Witness ==
    /\ origin.kind = "summary"
    /\ origin.how = "stored"
    /\ origin.entity.fluency_score = 150
    /\ rebuilt.n = 2
    /\ rebuilt.err = NoError
    /\ rebuilt.entity[1].fluency_score = 150

----------------------------------------------------------------------------
(* Properties of a failed turn and of repeated turns, checked under        *)
(* SpecTurn                                                                *)

\* C31: within one turn, synchronous or streaming, the partner is called at
\* most once; when the partner call or the stream has raised, exactly one
\* call was made, the exception it raised is the one that reached the
\* caller, no save followed the call, and the turn takes no further step:
\* the only step out of the failed turn is the start of another request,
\* which leaves the repository as it is.
C31_NoRetryInTurn ==
    /\ [](mode \in {"sync", "stream"} =>
            /\ partnerCalls <= 1
            /\ (pc = "partner_failed" =>
                    /\ partnerCalls = 1
                    /\ raised \in PartnerErrors
                    /\ surfaced = raised
                    /\ saves = savedAtCall))
    /\ [][pc = "partner_failed" =>
            /\ turns' = turns + 1
            /\ repo' = repo
            /\ pc' \in {"rejected", "sync_call", "stream_save"}]_vars

\* the caller repeated a request whose partner call had raised, and the
\* partner call of the second synchronous turn raised as well
C31_Witness ==
    /\ mode = "sync"
    /\ turns = 2
    /\ pc = "partner_failed"
    /\ partnerCalls = 1
    /\ saves = 0
    /\ surfaced = PartnerResponseError

\* C32: over any sequence of streaming turns on one conversation, whenever
\* no turn is running, the number of COACH messages the repository holds is
\* the number it held at the start plus the number of turns whose stream
\* ended normally with non-empty content.
C32_CoachPerNormalEnd ==
    pc \in Settled =>
        (IF repo = None THEN 0 ELSE CoachCount(repo[1].messages))
            = coach0 + normalEnds

\* C34: when the caller stops consuming the forwarded sequence after at
\* least one fragment and before the provider stream is exhausted, no COACH
\* message is appended, in memory or as persisted, save has been invoked
\* exactly once and the persisted conversation ends with the USER message
\* of the turn; the closed turn takes no further step, so no later save.
C34_AbandonedKeepsOnlyUser ==
    /\ [](mode = "stream" /\ pc = "abandoned" =>
            /\ Len(forwarded) >= 1
            /\ saves = 1
            /\ surfaced = NoError
            /\ OnlyUserAdded(turn[1].messages)
            /\ OnlyUserAdded(repo[1].messages))
    /\ [][pc = "abandoned" =>
            /\ turns' = turns + 1
            /\ repo' = repo]_vars

\* the caller closed the stream after two fragments with text, on a
\* conversation that held two messages
C34_Witness ==
    /\ mode = "stream"
    /\ pc = "abandoned"
    /\ forwarded = << <<"a">>, <<"a">> >>
    /\ Len(msgs0) = 2
    /\ Len(repo[1].messages) = 3

\* C35: in a synchronous turn whose partner call raises, or returns blank
\* content so that add_message of the COACH message is refused, save is
\* never invoked: the repository holds the messages it held when the turn
\* started, without the USER message of the turn, and the caller gets the
\* partner's exception or InvalidMessageContentError.
C35_SyncFailureSavesNothing ==
    mode = "sync" /\ pc \in {"partner_failed", "coach_rejected"} =>
        /\ saves = 0
        /\ repo[1].messages = msgs0
        /\ OnlyUserAdded(turn[1].messages)
        /\ (pc = "partner_failed" =>
                surfaced = raised /\ raised \in PartnerErrors)
        /\ (pc = "coach_rejected" =>
                surfaced = InvalidMessageContentError)

\* the partner of a synchronous turn returned blank content
C35_Witness ==
    /\ mode = "sync"
    /\ pc = "coach_rejected"
    /\ surfaced = InvalidMessageContentError
    /\ saves = 0
    /\ Len(turn[1].messages) = Len(repo[1].messages) + 1

\* C33: request on a message that is COACH-authored or that already has
\* feedback is rejected without any call of the feedback analyzer.
C33_NoAnalyzerCallWhenIneligible ==
    /\ ucall.call.op = "request"
    /\ TargetFound
    /\ (Target.role = COACH \/ Target.feedback # None)
    => ucall.call.providerCalls = 0

----------------------------------------------------------------------------
(* Properties of the discovery lock, checked under SpecRegistryFair        *)

\* thread t is inside the with block of _ensure_loaded
InsideLock(t) == tpc[t] \in {"check2", "package", "discover", "mark", "release"}

\* C37: the lock is held only by a thread that is inside the with block of
\* _ensure_loaded, so it is free whenever no thread is there, and under
\* fair scheduling every thread that has called a read operation reaches
\* the end of it: no thread waits on the lock forever.
C37_EveryReadReturns ==
    /\ [](/\ lock # NoThread => InsideLock(lock)
          /\ \A t \in Threads : InsideLock(t) => lock = t)
    /\ \A t \in Threads : (tpc[t] = "check1" ~> tpc[t] = "done")

\* a thread waits on the lock while another one, inside discovery, holds it
C37_Witness ==
    \E t, u \in Threads :
        /\ tpc[t] = "lock"
        /\ tpc[u] = "discover"
        /\ lock = u
        /\ failed # {}

----------------------------------------------------------------------------
(* Properties of re-discovery after clear(), checked under SpecReset       *)

\* C36: when discovery has completed once and registered providers, a
\* clear() followed by a read operation leaves the catalog with the set of
\* provider ids that the first discovery registered.
C36_RediscoveryRestoresCatalog ==
    [][/\ call.op = "clear"
       /\ loads = 1
       /\ discovered # {}
       /\ call'.op = "get_registered_providers"
       => IdSet(providers') = discovered]_vars

----------------------------------------------------------------------------
(* Properties of the summary and of the lifecycle calls, checked under     *)
(* Spec                                                                    *)

\* C38: in every state of a conversation built by create() and changed only
\* through its methods, an attached summary implies status COMPLETED.
C38_SummaryImpliesCompleted ==
    conv.summary # None => conv.status = COMPLETED

\* C39: attach_summary succeeds exactly on a COMPLETED conversation without
\* a summary and then holds the given summary; a rejected attach_summary
\* leaves the whole conversation, summary, status and updated_at included,
\* as it was; and no call of any operation replaces or removes a summary
\* that is attached.
C39_SummaryAttachedOnce ==
    /\ [](last.op = "attach_summary" =>
            /\ last.err = NoError <=>
                  (last.before.status = COMPLETED /\ last.before.summary = None)
            /\ last.err = NoError => conv.summary # None
            /\ last.err # NoError =>
                  /\ last.err = InvalidConversationStateError
                  /\ conv = last.before)
    /\ [][conv.summary # None => conv'.summary = conv.summary]_vars

\* a second attach_summary on a COMPLETED conversation was rejected and the
\* first summary is still attached
C39_Witness ==
    /\ last.op = "attach_summary"
    /\ last.err = InvalidConversationStateError
    /\ last.before.status = COMPLETED
    /\ last.before.summary # None
    /\ conv.summary = last.before.summary

\* C40: a call of archive, restore or end, on the entity or through
\* ChangeConversationStatus, successful or rejected, leaves id,
\* context_topic, tone, created_at, the message list and the summary as
\* they were: only status and updated_at may differ.
C40_LifecycleFrame ==
    last.op \in {"archive", "restore", "end"} =>
        [conv EXCEPT !.status = last.before.status,
                     !.updated_at = last.before.updated_at] = last.before

\* a COMPLETED conversation with two messages and a summary was restored
\* through the use case at a later clock reading
C40_Witness ==
    /\ last.op = "restore"
    /\ last.via = "use_case"
    /\ last.err = NoError
    /\ last.before.status = COMPLETED
    /\ conv.status = ACTIVE
    /\ conv.summary # None
    /\ Len(conv.messages) = 2
    /\ conv.updated_at > last.before.updated_at

=============================================================================
